---- MODULE Spec2Model ----
(***************************************************************************)
(* Reference-data cache and hierarchy engine of the geospatial data lake.  *)
(*                                                                         *)
(* The state machines that share this module:                              *)
(*   LazyLoadSpec      the lazy-loading reader of README.md                *)
(*                     (getFeatureOfInterestWithExternals);                *)
(*   FeatureSyncSpec   the feature synchronisation job of README.md        *)
(*                     (syncExternalFeatures);                             *)
(*   FeatureSyncFaultSpec  the same job when its database writes can fail; *)
(*   OntologySyncSpec  the UCUM ontology synchronisation of FINTO.md       *)
(*                     (UCUMOntologySync): paginated pass, upsert,         *)
(*                     hierarchy rebuild;                                  *)
(*   OntologySyncFairSpec  the same when the steps of a pass are taken;    *)
(*   OverlapSyncSpec   two overlapping synchronisation runs;               *)
(*   UnitStoreSpec     the unit collection, its indexes and sample units;  *)
(*   ConversionSpec    the conversion stage of the cross-lake query and    *)
(*                     the atm/Pa conversion factors;                      *)
(*   DateDimensionSpec the date dimension records;                         *)
(*   SchemaSetupSpec   initializeSchemas of the Go service;                *)
(*   ObservationRepoSpec   the observation repository of the Go service;   *)
(*   DateRangeSpec     the date range loops of the Go service and script;  *)
(*   DateInsertSpec    the batched insert of the date dimension;           *)
(*   ConfigLoadSpec    config.Load of the Go service.                      *)
(* Each specification leaves the other machines' variables unchanged.      *)
(*                                                                         *)
(* Time is counted in hours: the code's 60*60*1000 ms is 1.                *)
(***************************************************************************)
EXTENDS Integers, Sequences, FiniteSets, TLC

VARIABLES
    now,          \* the clock (new Date()), in hours
    ticks,        \* how many times the clock has advanced
    assoc,        \* feature_associations: AssocIds -> association document
    cache,        \* external_feature_cache: FeatureKeys -> NoEntry or document
    remoteVer,    \* the OGC API server: the version (payload and ETag) of each feature
    syncPc,       \* position of syncExternalFeatures
    toSync,       \* the job's toSync array (ids of the documents find() returned)
    syncFreshFetch, \* the ids of the associations the job fetched for while the entry was fresh
    foiMeta,      \* features_of_interest: cachedMetadata of the FOI's external feature
    rdPc,         \* position of each caller of getFeatureOfInterestWithExternals
    rdFoi,        \* the foi document each caller got from findOne
    rdNow,        \* the `now` each caller captured before its fetch
    rdFresh,      \* the freshData each caller's fetch returned
    lazyFreshFetch, \* has a caller fetched while the stored cachedMetadata was fresh?
    \* ---- UCUM ontology synchronisation (FINTO.md) ----
    source,       \* the Finto API: [size, graph, rev] of the vocabulary it serves
    srcChanges,   \* how many times the source has changed
    store,        \* unitOfMeasurement: the sequence of its documents
    treeCache,    \* unitHierarchyCache: dimension -> NoTree or document
    fPc,          \* position of syncFromFinto / rebuildHierarchyCache
    offset,       \* the pass's offset
    results,      \* results.concepts still to process (URIs of the page)
    pageLen,      \* results.concepts.length
    unit,         \* the unit transformToSchema returned, about to be upserted
    dims,         \* the dimensions rebuildHierarchyCache still has to rebuild
    tree,         \* the tree buildTree returned, about to be written
    passes,       \* how many sync passes have started
    report,       \* what the last pass did: [status, failedAt, failedOffset, retries, pages]
    lastError,    \* the error the last rebuild threw ("none" if it did not)
    passDirty,    \* did the source change while the current pass ran?
    cleanPasses,  \* completed passes since the source last changed (counted to 2)
    snap,         \* the payloads of the store when the previous clean pass ended
    treeSeen,     \* the document the last getTree read
    \* ---- overlapping sync passes (FINTO.md) ----
    wPc,          \* position of each of the overlapping passes
    wUnit,        \* the unit each overlapping pass holds, about to be upserted
    \* ---- setup of the unit_of_measurement collection (README.md) ----
    setupPc,      \* position of the setup script
    ttlIndex,     \* does idx_cache_expiry exist?
    everStored,   \* the URIs of the records ever stored by the setup
    opDeleted,    \* the URIs an operator deleted explicitly
    \* ---- unit conversion query (cross-lake-queries.js) ----
    obsResult,    \* the observation's result
    obsUnit,      \* the unit document the $lookup joined to the observation
    convOut,      \* the fields $addFields added: [done, convertedResult, baseUnit, error]
    \* ---- conversion by the unitConversionCache document (FINTO.md) ----
    rtPc,         \* position of a conversion there and back
    rtValue,      \* the value to convert
    rtThere,      \* the value converted from fromUri to toUri
    rtBack,       \* the value converted back, a wide decimal in units of 10^-ReverseScale
    \* ---- date dimension (date_dimension.go, date_dimension_service.go, 09-features-of-interest.js) ----
    dateIn,       \* the date a record is generated for: [year, month, day]
    dateRec,      \* the record generateDateRecord returned, NoRecord before
    \* ---- schema initialisation (main.go, schemas package) ----
    obsColl,      \* does the observations collection exist?
    obsIndexes,   \* the observation indexes that exist (positions in the indexes slice)
    initPc,       \* position of initializeSchemas
    initNext,     \* the position of the index the loop creates next
    initResult,   \* what initializeSchemas returned: "none", "nil" or "error"
    \* ---- observation repository (repository package) ----
    obsStored,    \* the documents of the observations collection
    \* ---- date dimension load (GenerateDateRange, InsertDateDimension) ----
    startDate,    \* GenerateDateRange: the first argument
    endDate,      \* GenerateDateRange: the second argument
    rangeBy,      \* which generator runs: "go" or "js"
    current,      \* the loop variable, an instant in hours
    dates,        \* the _id of the records generated so far, in order
    rangePc,      \* position of GenerateDateRange: "idle", "loop" or "done"
    numDocs,      \* InsertDateDimension: len(docs)
    batchI,       \* the loop variable i
    batches,      \* the batches stored so far: <<i, end>> each
    storedDocs,   \* how many of the documents are stored (the inserts are ordered)
    insertPc,     \* position of InsertDateDimension
    insertResult, \* what it returned: "none", "nil" or "error"
    \* ---- configuration (config package) ----
    env,          \* the environment: variable name -> value ("" or <<>> when unset)
    loadPc,       \* position of Load: "idle", "called" or "returned"
    loadCfg,      \* the configuration Load returned, NoConfig for nil
    loadErr       \* the error Load returned: "nil" or the message

cacheVars == <<now, ticks, assoc, cache, remoteVer, syncPc, toSync, syncFreshFetch,
               foiMeta, rdPc, rdFoi, rdNow, rdFresh, lazyFreshFetch>>

fintoVars == <<source, srcChanges, store, treeCache, fPc, offset, results, pageLen, unit,
               dims, tree, passes, report, lastError, passDirty, cleanPasses, snap,
               treeSeen>>

overlapVars == <<wPc, wUnit>>

\* the variables of the machines defined after the ontology synchronisation
setupVars == <<setupPc, ttlIndex, everStored, opDeleted>>

convVars == <<obsResult, obsUnit, convOut, rtPc, rtValue, rtThere, rtBack>>

dateVars == <<dateIn, dateRec>>

schemaVars == <<obsColl, obsIndexes, initPc, initNext, initResult>>

repoVars == <<obsStored>>

rangeVars == <<startDate, endDate, rangeBy, current, dates, rangePc>>
batchVars == <<numDocs, batchI, batches, storedDocs, insertPc, insertResult>>
loadVars == <<rangeVars, batchVars>>

configVars == <<env, loadPc, loadCfg, loadErr>>

otherVars == <<overlapVars, setupVars, convVars, dateVars, schemaVars, repoVars, loadVars, configVars>>

\* for each of these machines, the variables of the others
outsideOverlap == <<setupVars, convVars, dateVars, schemaVars, repoVars, loadVars, configVars>>
outsideSetup == <<overlapVars, convVars, dateVars, schemaVars, repoVars, loadVars, configVars>>
outsideConv == <<overlapVars, setupVars, dateVars, schemaVars, repoVars, loadVars, configVars>>
outsideDate == <<overlapVars, setupVars, convVars, schemaVars, repoVars, loadVars, configVars>>
outsideSchema == <<overlapVars, setupVars, convVars, dateVars, repoVars, loadVars, configVars>>
outsideRepo == <<overlapVars, setupVars, convVars, dateVars, schemaVars, loadVars, configVars>>
outsideLoad == <<overlapVars, setupVars, convVars, dateVars, schemaVars, repoVars, configVars>>
outsideConfig == <<overlapVars, setupVars, convVars, dateVars, schemaVars, repoVars, loadVars>>

vars == <<cacheVars, fintoVars, otherVars>>

---------------------------------------------------------------------------
(* Bounds of the model *)

NumAssocs == 2
NumFeatures == 1
NumReaders == 2
MaxTicks == 2
MaxRemoteVer == 2

(* Program constants, in hours *)

HourlyPeriod == 1
DailyPeriod == 24
WeeklyPeriod == 168
MonthlyPeriod == 720
DefaultPeriod == 24
LazyTTL == 720
StaleAge == 720

AssocIds == 1..NumAssocs
FeatureKeys == 1..NumFeatures
Readers == 1..NumReaders
Frequencies == {"hourly", "monthly", "on_change"}
TickSteps == {HourlyPeriod, MonthlyPeriod}
ErrorMessages == {"fetch failed", "timeout"}
NoEntry == [present |-> FALSE]
NoFoi == [lastFetched |-> 0, properties |-> 0]

\* the cache entry "<collection.id>/<feature.id>" an association points at
TargetOf(a) == ((a - 1) % NumFeatures) + 1

---------------------------------------------------------------------------
(* Helpers of the synchronisation pattern *)

GetNextSyncTime(frequency, t) ==
    CASE frequency = "hourly"  -> t + HourlyPeriod
      [] frequency = "daily"   -> t + DailyPeriod
      [] frequency = "weekly"  -> t + WeeklyPeriod
      [] frequency = "monthly" -> t + MonthlyPeriod
      [] OTHER                 -> t + DefaultPeriod

GetExpiryTime(frequency, t) == GetNextSyncTime(frequency, t)

\* find({status: "active", "synchronization.nextScheduledSync": {$lte: new Date()}})
NeedsSync(a, t) ==
    /\ assoc[a].status = "active"
    /\ assoc[a].nextScheduledSync <= t

\* the validation query's $match: active, lastSync older than 30 days
ValidationMatch(a, t) ==
    /\ assoc[a].status = "active"
    /\ assoc[a].lastSync < t - StaleAge

\* the validation query's needsSync: {$gt: [nextScheduledSync, new Date()]}
ValidationNeedsSync(a, t) == assoc[a].nextScheduledSync > t

\* validationQuery.forEach: the status printed for each document of the result
ValidationQuery(t) ==
    [a \in {b \in AssocIds : ValidationMatch(b, t)} |->
        IF ValidationNeedsSync(a, t) THEN "NEEDS SYNC" ELSE "OK"]

RECURSIVE SeqOfSet(_)
SeqOfSet(S) ==
    IF S = {} THEN <<>>
    ELSE LET m == CHOOSE x \in S : \A y \in S : x <= y
         IN <<m>> \o SeqOfSet(S \ {m})

\* the 304 branch's updateOne on the association
AssocNotModified(doc, t) ==
    [doc EXCEPT !.lastSync = t,
                !.nextScheduledSync = GetNextSyncTime(doc.syncFrequency, t)]

\* the 200 branch's replaceOne on external_feature_cache
CacheDocument(doc, feature, etag, t) ==
    [present |-> TRUE, feature |-> feature, fetchedAt |-> t,
     expires |-> GetExpiryTime(doc.syncFrequency, t), etag |-> etag]

\* the 200 branch's updateOne on the association
AssocUpdated(doc, etag, t) ==
    [doc EXCEPT !.lastSync = t,
                !.nextScheduledSync = GetNextSyncTime(doc.syncFrequency, t),
                !.lastKnownEtag = etag,
                !.lastModified = t]

\* the catch branch's updateOne on the association
AssocSyncFailed(doc, message) ==
    [doc EXCEPT !.isValid = FALSE, !.issues = <<message>>]

\* is the cache entry of key k fresh (expiry later than t)?
EntryFresh(k, t) == cache[k].present /\ cache[k].expires > t

\* the lazy loader's test: cached.lastFetched < now - 30 days
LazyExpired(meta, t) == meta.lastFetched < t - LazyTTL

---------------------------------------------------------------------------
(* Initial state: every association was synchronised at time 0, in the    *)
(* order of the job's loop, against version 1 of its feature.             *)

InitAssoc(freq, stat) ==
    [a \in AssocIds |->
        [status |-> stat[a], syncFrequency |-> freq[a], lastSync |-> 0,
         nextScheduledSync |-> GetNextSyncTime(freq[a], 0),
         lastKnownEtag |-> 1, lastModified |-> 0,
         isValid |-> TRUE, issues |-> <<>>, spatialType |-> "within"]]

InitCacheEntry(freq, k) ==
    LET users == {a \in AssocIds : TargetOf(a) = k}
        last == CHOOSE a \in users : \A b \in users : b <= a
    IN IF users = {} THEN NoEntry
       ELSE [present |-> TRUE, feature |-> 1, fetchedAt |-> 0,
             expires |-> GetExpiryTime(freq[last], 0), etag |-> 1]

\* the associations and the cache as the first run of the job left them
JobInit ==
    /\ \E freq \in [AssocIds -> Frequencies], stat \in [AssocIds -> {"active", "inactive"}] :
          /\ assoc = InitAssoc(freq, stat)
          /\ cache = [k \in FeatureKeys |-> InitCacheEntry(freq, k)]
    /\ syncPc = "idle"
    /\ toSync = <<>>
    /\ syncFreshFetch = {}

\* the job's collections when only the lazy loader is observed
JobAtRest ==
    /\ assoc = InitAssoc([a \in AssocIds |-> "daily"], [a \in AssocIds |-> "active"])
    /\ cache = [k \in FeatureKeys |-> InitCacheEntry([a \in AssocIds |-> "daily"], k)]
    /\ syncPc = "idle"
    /\ toSync = <<>>
    /\ syncFreshFetch = {}

\* the FOI's cachedMetadata was fetched at time 0; no caller is running
ReaderInit ==
    /\ foiMeta = [lastFetched |-> 0, properties |-> 1]
    /\ rdPc = [r \in Readers |-> "idle"]
    /\ rdFoi = [r \in Readers |-> NoFoi]
    /\ rdNow = [r \in Readers |-> 0]
    /\ rdFresh = [r \in Readers |-> 0]
    /\ lazyFreshFetch = FALSE

EnvInit ==
    /\ now = 0
    /\ ticks = 0
    /\ remoteVer = [k \in FeatureKeys |-> 1]

---------------------------------------------------------------------------
(* Environment: the clock and the external OGC API server *)

Tick ==
    /\ ticks < MaxTicks
    /\ \E d \in TickSteps : now' = now + d
    /\ ticks' = ticks + 1
    /\ UNCHANGED <<assoc, cache, remoteVer, syncPc, toSync, syncFreshFetch,
                   foiMeta, rdPc, rdFoi, rdNow, rdFresh, lazyFreshFetch, fintoVars, otherVars>>

RemoteChange ==
    /\ \E k \in FeatureKeys :
          /\ remoteVer[k] < MaxRemoteVer
          /\ remoteVer' = [remoteVer EXCEPT ![k] = @ + 1]
    /\ UNCHANGED <<now, ticks, assoc, cache, syncPc, toSync, syncFreshFetch,
                   foiMeta, rdPc, rdFoi, rdNow, rdFresh, lazyFreshFetch, fintoVars, otherVars>>

---------------------------------------------------------------------------
(* syncExternalFeatures *)

readerVars == <<foiMeta, rdPc, rdFoi, rdNow, rdFresh, lazyFreshFetch>>

\* const toSync = await db.feature_associations.find({...}).toArray()
SyncStart ==
    /\ syncPc = "idle"
    /\ toSync' = SeqOfSet({a \in AssocIds : NeedsSync(a, now)})
    /\ syncPc' = "loop"
    /\ UNCHANGED <<now, ticks, assoc, cache, remoteVer, syncFreshFetch>>
    /\ UNCHANGED <<readerVars, fintoVars, otherVars>>

\* for (let assoc of toSync) { ... await fetch(href, {If-None-Match: lastKnownEtag})
SyncFetch ==
    /\ syncPc = "loop"
    /\ toSync # <<>>
    /\ LET a == Head(toSync)
       IN syncFreshFetch' = IF EntryFresh(TargetOf(a), now)
                            THEN syncFreshFetch \cup {a} ELSE syncFreshFetch
    /\ syncPc' = "fetching"
    /\ UNCHANGED <<now, ticks, assoc, cache, remoteVer, toSync>>
    /\ UNCHANGED <<readerVars, fintoVars, otherVars>>

\* response.status === 304: the server still holds the version of lastKnownEtag
SyncNotModified ==
    /\ syncPc = "fetching"
    /\ LET a == Head(toSync)
       IN /\ remoteVer[TargetOf(a)] = assoc[a].lastKnownEtag
          /\ assoc' = [assoc EXCEPT ![a] = AssocNotModified(@, now)]
    /\ toSync' = Tail(toSync)
    /\ syncPc' = "loop"
    /\ UNCHANGED <<now, ticks, cache, remoteVer, syncFreshFetch>>
    /\ UNCHANGED <<readerVars, fintoVars, otherVars>>

\* response.status === 200: replaceOne on the cache, then (next step) the association
SyncReplaceCache ==
    /\ syncPc = "fetching"
    /\ LET a == Head(toSync)
           k == TargetOf(a)
       IN /\ remoteVer[k] # assoc[a].lastKnownEtag
          /\ cache' = [cache EXCEPT ![k] = CacheDocument(assoc[a], remoteVer[k], remoteVer[k], now)]
    /\ syncPc' = "updating"
    /\ UNCHANGED <<now, ticks, assoc, remoteVer, toSync, syncFreshFetch>>
    /\ UNCHANGED <<readerVars, fintoVars, otherVars>>

SyncUpdateAssoc ==
    /\ syncPc = "updating"
    /\ LET a == Head(toSync)
       IN assoc' = [assoc EXCEPT ![a] = AssocUpdated(@, cache[TargetOf(a)].etag, now)]
    /\ toSync' = Tail(toSync)
    /\ syncPc' = "loop"
    /\ UNCHANGED <<now, ticks, cache, remoteVer, syncFreshFetch>>
    /\ UNCHANGED <<readerVars, fintoVars, otherVars>>

\* a response whose status is neither 304 nor 200: neither branch runs, nothing throws
SyncOtherStatus ==
    /\ syncPc = "fetching"
    /\ toSync' = Tail(toSync)
    /\ syncPc' = "loop"
    /\ UNCHANGED <<now, ticks, assoc, cache, remoteVer, syncFreshFetch>>
    /\ UNCHANGED <<readerVars, fintoVars, otherVars>>

\* fetch rejects: catch (error) { ... }
SyncFetchFailed ==
    /\ syncPc = "fetching"
    /\ \E msg \in ErrorMessages :
          assoc' = [assoc EXCEPT ![Head(toSync)] = AssocSyncFailed(@, msg)]
    /\ toSync' = Tail(toSync)
    /\ syncPc' = "loop"
    /\ UNCHANGED <<now, ticks, cache, remoteVer, syncFreshFetch>>
    /\ UNCHANGED <<readerVars, fintoVars, otherVars>>

\* the association's updateOne of the 200 branch rejects after the cache was
\* replaced: catch (error) records the failure on the association
SyncUpdateAssocFailed ==
    /\ syncPc = "updating"
    /\ \E msg \in ErrorMessages :
          assoc' = [assoc EXCEPT ![Head(toSync)] = AssocSyncFailed(@, msg)]
    /\ toSync' = Tail(toSync)
    /\ syncPc' = "loop"
    /\ UNCHANGED <<now, ticks, cache, remoteVer, syncFreshFetch>>
    /\ UNCHANGED <<readerVars, fintoVars, otherVars>>

\* the updateOne inside catch (error) rejects as well: nothing catches it, the
\* rejection leaves the for loop and syncExternalFeatures
SyncCatchFailed ==
    /\ syncPc \in {"fetching", "updating"}
    /\ toSync' = <<>>
    /\ syncPc' = "idle"
    /\ UNCHANGED <<now, ticks, assoc, cache, remoteVer, syncFreshFetch>>
    /\ UNCHANGED <<readerVars, fintoVars, otherVars>>

SyncDone ==
    /\ syncPc = "loop"
    /\ toSync = <<>>
    /\ syncPc' = "idle"
    /\ UNCHANGED <<now, ticks, assoc, cache, remoteVer, toSync, syncFreshFetch>>
    /\ UNCHANGED <<readerVars, fintoVars, otherVars>>

---------------------------------------------------------------------------
(* getFeatureOfInterestWithExternals, one FOI with one external feature *)

jobVars == <<now, ticks, assoc, cache, remoteVer, syncPc, toSync, syncFreshFetch>>

\* const foi = await db.features_of_interest.findOne({_id: foiId})
ReaderFindOne(r) ==
    /\ rdPc[r] = "idle"
    /\ rdFoi' = [rdFoi EXCEPT ![r] = foiMeta]
    /\ rdPc' = [rdPc EXCEPT ![r] = "loaded"]
    /\ UNCHANGED <<foiMeta, rdNow, rdFresh, lazyFreshFetch>>
    /\ UNCHANGED <<jobVars, fintoVars, otherVars>>

\* cache expired: const freshData = await fetchFromOGCAPI(extFeature.featureAPI)
ReaderFetch(r) ==
    /\ rdPc[r] = "loaded"
    /\ LazyExpired(rdFoi[r], now)
    /\ rdNow' = [rdNow EXCEPT ![r] = now]
    /\ lazyFreshFetch' = (lazyFreshFetch \/ ~LazyExpired(foiMeta, now))
    /\ rdPc' = [rdPc EXCEPT ![r] = "fetching"]
    /\ UNCHANGED <<foiMeta, rdFoi, rdFresh>>
    /\ UNCHANGED <<jobVars, fintoVars, otherVars>>

\* cache still valid: return foi
ReaderReturnCached(r) ==
    /\ rdPc[r] = "loaded"
    /\ ~LazyExpired(rdFoi[r], now)
    /\ rdPc' = [rdPc EXCEPT ![r] = "returned"]
    /\ UNCHANGED <<foiMeta, rdFoi, rdNow, rdFresh, lazyFreshFetch>>
    /\ UNCHANGED <<jobVars, fintoVars, otherVars>>

\* the fetch resolves with the feature the server holds
ReaderFetchOk(r) ==
    /\ rdPc[r] = "fetching"
    /\ rdFresh' = [rdFresh EXCEPT ![r] = remoteVer[1]]
    /\ rdPc' = [rdPc EXCEPT ![r] = "updating"]
    /\ UNCHANGED <<foiMeta, rdFoi, rdNow, lazyFreshFetch>>
    /\ UNCHANGED <<jobVars, fintoVars, otherVars>>

\* the fetch rejects: nothing catches it, the caller gets the exception
ReaderFetchFailed(r) ==
    /\ rdPc[r] = "fetching"
    /\ rdPc' = [rdPc EXCEPT ![r] = "failed"]
    /\ UNCHANGED <<foiMeta, rdFoi, rdNow, rdFresh, lazyFreshFetch>>
    /\ UNCHANGED <<jobVars, fintoVars, otherVars>>

\* updateOne: cachedMetadata = {lastFetched: now, properties: freshData.properties}; return foi
ReaderUpdate(r) ==
    /\ rdPc[r] = "updating"
    /\ foiMeta' = [lastFetched |-> rdNow[r], properties |-> rdFresh[r]]
    /\ rdPc' = [rdPc EXCEPT ![r] = "refreshed"]
    /\ UNCHANGED <<rdFoi, rdNow, rdFresh, lazyFreshFetch>>
    /\ UNCHANGED <<jobVars, fintoVars, otherVars>>

\* the caller calls again
ReaderAgain(r) ==
    /\ rdPc[r] \in {"returned", "refreshed", "failed"}
    /\ rdPc' = [rdPc EXCEPT ![r] = "idle"]
    /\ rdFoi' = [rdFoi EXCEPT ![r] = NoFoi]
    /\ rdNow' = [rdNow EXCEPT ![r] = 0]
    /\ rdFresh' = [rdFresh EXCEPT ![r] = 0]
    /\ UNCHANGED <<foiMeta, lazyFreshFetch>>
    /\ UNCHANGED <<jobVars, fintoVars, otherVars>>

---------------------------------------------------------------------------

---------------------------------------------------------------------------
(* UCUM ontology synchronisation: the source, the store, the helpers *)

NumConcepts == 4
PageLimit == 2
MaxSourceChanges == 1
MaxPasses == 2

URIs == 1..NumConcepts
Graphs == {"chain", "ring", "lasso"}
Dimensions == {"pressure", "temperature"}
NoUnit == [uri |-> 0]
NoTree == [present |-> FALSE]
NoReport == [status |-> "none", failedAt |-> "none", failedOffset |-> 0,
             retries |-> 0, pages |-> {}]

\* classification.dimension of a concept: the first URI is a temperature unit
DimOf(u) == IF u = 1 THEN "temperature" ELSE "pressure"

\* skos:broader of concept u in a vocabulary of n concepts shaped as graph g;
\* concept 1 stands alone, the pressure units 2..n form the graph
Broader(g, n, u) ==
    IF u = 1 THEN {}
    ELSE CASE g = "chain" -> IF u > 2 THEN {u - 1} ELSE {}
           [] g = "ring"  -> {IF u = n THEN 2 ELSE u + 1}
           [] g = "lasso" -> IF u = 2 THEN {}
                             ELSE IF u = 3 THEN {2, n} ELSE {u - 1}

SrcEdges(src) == [u \in 1..src.size |-> Broader(src.graph, src.size, u)]

\* breadth-first search over the edges, from the nodes of the frontier
RECURSIVE Bfs(_, _, _)
Bfs(edges, frontier, seen) ==
    IF frontier = {} THEN seen
    ELSE LET nxt == UNION {IF v \in DOMAIN edges THEN edges[v] ELSE {} : v \in frontier}
         IN Bfs(edges, nxt \ seen, seen \cup nxt)

Ancestors(edges, u) == Bfs(edges, {u}, {})

\* GET search?query=*&limit=..&offset=..: the URIs of one page, in the source's order
SearchPage(src, off, lim) ==
    [i \in 1..(IF src.size - off > lim THEN lim
               ELSE IF src.size > off THEN src.size - off ELSE 0) |-> off + i]

\* GET data?uri=..: the full concept, with the hierarchy the source holds for it
ConceptDetails(src, u) ==
    [uri |-> u, label |-> src.rev, dimension |-> DimOf(u),
     broader |-> SrcEdges(src)[u],
     broaderTransitive |-> Ancestors(SrcEdges(src), u)]

\* transformToSchema(details): the unit document, from the details alone
TransformToSchema(details) ==
    [uri |-> details.uri, label |-> details.label, dimension |-> details.dimension,
     broader |-> details.broader, broaderTransitive |-> details.broaderTransitive]

\* the index of the document of uri in the collection, 0 when there is none
IndexOf(coll, uri) ==
    IF \E i \in 1..Len(coll) : coll[i].uri = uri
    THEN CHOOSE i \in 1..Len(coll) :
            coll[i].uri = uri /\ \A j \in 1..(i - 1) : coll[j].uri # uri
    ELSE 0

\* insertOne: a new document, whatever the collection holds
InsertOne(coll, u, t) ==
    Append(coll, [uri |-> u.uri, label |-> u.label, dimension |-> u.dimension,
                  broader |-> u.broader, broaderTransitive |-> u.broaderTransitive,
                  lastModified |-> t])

\* every call inserts: no match on the URI
UpdateOneAlwaysInsert(coll, u, t) == InsertOne(coll, u, t)

\* updateOne({uri}, {$set: unit, $currentDate: {"metadata.lastModified": true}}, {upsert: true})
UpdateOneUpsert(coll, u, t) ==
    LET i == IndexOf(coll, u.uri)
        set == [uri |-> u.uri, label |-> u.label, dimension |-> u.dimension,
                broader |-> u.broader, broaderTransitive |-> u.broaderTransitive,
                lastModified |-> t]
    IN IF i = 0 THEN InsertOne(coll, u, t)
       ELSE [coll EXCEPT ![i] =
                [f \in DOMAIN coll[i] \cup DOMAIN set |->
                    IF f \in DOMAIN set THEN set[f] ELSE coll[i][f]]]

\* a Concept record without its cache-metadata timestamps
Payload(doc) ==
    [uri |-> doc.uri, label |-> doc.label, dimension |-> doc.dimension,
     broader |-> doc.broader, broaderTransitive |-> doc.broaderTransitive]

Payloads(coll) == [i \in 1..Len(coll) |-> Payload(coll[i])]

StoredURIs(coll) == {coll[i].uri : i \in 1..Len(coll)}

\* the broader edges the store holds
StoreEdges(coll) ==
    [u \in StoredURIs(coll) |-> coll[IndexOf(coll, u)].broader]

\* db.unitOfMeasurement.distinct("classification.dimension"), in order
DistinctDimensions(coll) ==
    LET ds == {coll[i].dimension : i \in 1..Len(coll)}
    IN (IF "pressure" \in ds THEN <<"pressure">> ELSE <<>>)
       \o (IF "temperature" \in ds THEN <<"temperature">> ELSE <<>>)

---------------------------------------------------------------------------
(* Hierarchy Builder *)

RECURSIVE ChainOf(_, _)
\* the ancestors of n in the tree being built, nearest parent first
ChainOf(parent, n) ==
    IF parent[n] = 0 THEN <<>> ELSE <<parent[n]>> \o ChainOf(parent, parent[n])

SeqRange(q) == {q[i] : i \in 1..Len(q)}

Reverse(q) == [i \in 1..Len(q) |-> q[Len(q) + 1 - i]]

MinOf(S) == CHOOSE x \in S : \A y \in S : x <= y

\* one level of the breadth-first traversal: the children of the nodes of `level`
\* are visited; a child that is on the ancestor chain of its parent (or is the
\* parent) is a cycle; a child already visited is skipped
RECURSIVE Traverse(_, _, _, _)
Traverse(nodes, par, level, parent) ==
    LET revisit == \E n \in level, c \in nodes :
                       n \in par[c] /\ (c = n \/ c \in SeqRange(ChainOf(parent, n)))
        kids == {c \in nodes \ DOMAIN parent : par[c] \cap level # {}}
        grown == [u \in DOMAIN parent \cup kids |->
                     IF u \in kids THEN MinOf(par[u] \cap level) ELSE parent[u]]
    IN IF revisit THEN [ok |-> FALSE, parent |-> parent]
       ELSE IF kids = {} THEN [ok |-> TRUE, parent |-> parent]
       ELSE Traverse(nodes, par, kids, grown)

\* buildTree(dimension): the roots are the concepts with no broader edge within
\* the dimension; ok = FALSE is HierarchyCycleError
BuildTree(coll, d) ==
    LET nodes == {u \in StoredURIs(coll) : coll[IndexOf(coll, u)].dimension = d}
        par == [u \in nodes |-> StoreEdges(coll)[u] \cap nodes]
        roots == {u \in nodes : par[u] = {}}
    IN Traverse(nodes, par, roots, [u \in roots |-> 0])

\* is there a cycle among the broader edges the store holds within dimension d?
HasCycle(coll, d) ==
    LET nodes == {u \in StoredURIs(coll) : coll[IndexOf(coll, u)].dimension = d}
        par == [u \in nodes |-> StoreEdges(coll)[u] \cap nodes]
    IN \E u \in nodes : u \in Ancestors(par, u)

\* the ancestors listed from the nearest parent up to the root
FlattenTreeNearestFirst(t) ==
    [u \in DOMAIN t |->
        [uri |-> u,
         depth |-> Len(ChainOf(t, u)),
         ancestors |-> ChainOf(t, u),
         path |-> Append(Reverse(ChainOf(t, u)), u)]]

\* flattenTree(tree): a node's ancestors from the root down, as in allNodes of
\* the unitHierarchyCache document; its path ends with the node itself
FlattenTree(t) ==
    [u \in DOMAIN t |->
        [uri |-> u,
         depth |-> Len(ChainOf(t, u)),
         ancestors |-> Reverse(ChainOf(t, u)),
         path |-> Append(Reverse(ChainOf(t, u)), u)]]

\* the document rebuildHierarchyCache writes
TreeDocument(d, t, time) ==
    [present |-> TRUE, dimension |-> d, tree |-> t, allNodes |-> FlattenTree(t),
     lastRebuilt |-> time]

\* two writes instead of one: the tree is replaced, allNodes is still the old one
ReplaceOneTorn(coll, d, doc) ==
    [coll EXCEPT ![d] =
        [doc EXCEPT !.allNodes = IF coll[d].present THEN coll[d].allNodes ELSE <<>>]]

\* db.unitHierarchyCache.replaceOne({dimension}, doc, {upsert: true})
ReplaceOne(coll, d, doc) == [coll EXCEPT ![d] = doc]

---------------------------------------------------------------------------
(* UCUMOntologySync: syncFromFinto and rebuildHierarchyCache *)

FintoInitWith(n, g) ==
    /\ source = [size |-> n, graph |-> g, rev |-> 1]
    /\ srcChanges = 0
    /\ store = <<>>
    /\ treeCache = [d \in Dimensions |-> NoTree]
    /\ fPc = "idle"
    /\ offset = 0
    /\ results = <<>>
    /\ pageLen = 0
    /\ unit = NoUnit
    /\ dims = <<>>
    /\ tree = <<>>
    /\ passes = 0
    /\ report = NoReport
    /\ lastError = "none"
    /\ passDirty = FALSE
    /\ cleanPasses = 0
    /\ snap = <<>>
    /\ treeSeen = NoTree

\* the vocabulary the source serves is any of the graphs, of any size
FintoInit == \E n \in 0..NumConcepts, g \in Graphs : FintoInitWith(n, g)

\* the synchronisation's state when only the feature cache is observed
FintoAtRest == FintoInitWith(0, "chain")

InPass == fPc \in {"vocab", "page", "concepts", "upsert"}

\* the maintainers of the vocabulary change its hierarchy or its labels
SourceChange ==
    /\ srcChanges < MaxSourceChanges
    /\ \/ \E g \in Graphs \ {source.graph} : source' = [source EXCEPT !.graph = g]
       \/ source' = [source EXCEPT !.rev = @ + 1]
    /\ srcChanges' = srcChanges + 1
    /\ passDirty' = (passDirty \/ InPass)
    /\ cleanPasses' = 0
    /\ UNCHANGED <<store, treeCache, fPc, offset, results, pageLen, unit, dims, tree,
                   passes, report, lastError, snap, treeSeen>>
    /\ UNCHANGED <<cacheVars, otherVars>>

\* syncFromFinto() is called
SyncFromFinto ==
    /\ fPc = "idle"
    /\ passes < MaxPasses
    /\ passes' = passes + 1
    /\ fPc' = "vocab"
    /\ report' = [NoReport EXCEPT !.status = "running"]
    /\ passDirty' = FALSE
    /\ UNCHANGED <<source, srcChanges, store, treeCache, offset, results, pageLen, unit,
                   dims, tree, lastError, cleanPasses, snap, treeSeen>>
    /\ UNCHANGED <<cacheVars, otherVars>>

\* const vocab = await fetch(`${baseUrl}/ucum/`); let offset = 0
FetchVocab ==
    /\ fPc = "vocab"
    /\ offset' = 0
    /\ fPc' = "page"
    /\ UNCHANGED <<source, srcChanges, store, treeCache, results, pageLen, unit, dims,
                   tree, passes, report, lastError, passDirty, cleanPasses, snap,
                   treeSeen>>
    /\ UNCHANGED <<cacheVars, otherVars>>

\* const results = await fetch(search?query=*&limit&offset)
FetchPage ==
    /\ fPc = "page"
    /\ results' = SearchPage(source, offset, PageLimit)
    /\ pageLen' = Len(results')
    /\ report' = [report EXCEPT !.pages = @ \cup {offset}]
    /\ fPc' = "concepts"
    /\ UNCHANGED <<source, srcChanges, store, treeCache, offset, unit, dims, tree,
                   passes, lastError, passDirty, cleanPasses, snap, treeSeen>>
    /\ UNCHANGED <<cacheVars, otherVars>>

\* const details = await fetch(data?uri=...); const unit = this.transformToSchema(details)
FetchDetails ==
    /\ fPc = "concepts"
    /\ results # <<>>
    /\ unit' = TransformToSchema(ConceptDetails(source, Head(results)))
    /\ fPc' = "upsert"
    /\ UNCHANGED <<source, srcChanges, store, treeCache, offset, results, pageLen, dims,
                   tree, passes, report, lastError, passDirty, cleanPasses, snap,
                   treeSeen>>
    /\ UNCHANGED <<cacheVars, otherVars>>

\* await db.unitOfMeasurement.updateOne({uri: unit.uri}, ..., {upsert: true})
UpsertUnit ==
    /\ fPc = "upsert"
    /\ store' = UpdateOneUpsert(store, unit, now)
    /\ results' = Tail(results)
    /\ unit' = NoUnit
    /\ fPc' = "concepts"
    /\ UNCHANGED <<source, srcChanges, treeCache, offset, pageLen, dims, tree, passes,
                   report, lastError, passDirty, cleanPasses, snap, treeSeen>>
    /\ UNCHANGED <<cacheVars, otherVars>>

\* a fetch of the pass rejects: nothing in syncFromFinto catches it, nothing
\* retries it, the pass ends with the exception
FetchFailed ==
    /\ fPc \in {"vocab", "page", "concepts"}
    /\ fPc = "concepts" => results # <<>>
    /\ report' = [report EXCEPT !.status = "aborted",
                                !.failedAt = IF fPc = "concepts" THEN "details" ELSE fPc,
                                !.failedOffset = IF fPc = "vocab" THEN 0 ELSE offset,
                                !.retries = 0]
    /\ fPc' = "idle"
    /\ results' = <<>>
    /\ pageLen' = 0
    /\ offset' = 0
    /\ UNCHANGED <<source, srcChanges, store, treeCache, unit, dims, tree, passes,
                   lastError, passDirty, cleanPasses, snap, treeSeen>>
    /\ UNCHANGED <<cacheVars, otherVars>>

\* the page is done and was full, the offset advanced by one
NextPageByOne ==
    /\ fPc = "concepts"
    /\ results = <<>>
    /\ ~(pageLen < PageLimit)
    /\ offset' = offset + 1
    /\ fPc' = "page"
    /\ UNCHANGED <<source, srcChanges, store, treeCache, results, pageLen, unit, dims,
                   tree, passes, report, lastError, passDirty, cleanPasses, snap,
                   treeSeen>>
    /\ UNCHANGED <<cacheVars, otherVars>>

\* the page is done and was full: offset += limit
NextPage ==
    /\ fPc = "concepts"
    /\ results = <<>>
    /\ ~(pageLen < PageLimit)
    /\ offset' = offset + PageLimit
    /\ fPc' = "page"
    /\ UNCHANGED <<source, srcChanges, store, treeCache, results, pageLen, unit, dims,
                   tree, passes, report, lastError, passDirty, cleanPasses, snap,
                   treeSeen>>
    /\ UNCHANGED <<cacheVars, otherVars>>

\* if (results.concepts.length < limit) break
LastPage ==
    /\ fPc = "concepts"
    /\ results = <<>>
    /\ pageLen < PageLimit
    /\ fPc' = "synced"
    /\ report' = [report EXCEPT !.status = "synced"]
    /\ cleanPasses' = IF passDirty THEN 0
                      ELSE IF cleanPasses < 2 THEN cleanPasses + 1 ELSE 2
    /\ offset' = 0
    /\ pageLen' = 0
    /\ UNCHANGED <<source, srcChanges, store, treeCache, results, unit, dims, tree,
                   passes, lastError, passDirty, snap, treeSeen>>
    /\ UNCHANGED <<cacheVars, otherVars>>

\* await this.rebuildHierarchyCache(), after the pass
RebuildAfterSync ==
    /\ fPc = "synced"
    /\ dims' = DistinctDimensions(store)
    /\ snap' = Payloads(store)
    /\ lastError' = "none"
    /\ fPc' = "rebuild"
    /\ UNCHANGED <<source, srcChanges, store, treeCache, offset, results, pageLen, unit,
                   tree, passes, report, passDirty, cleanPasses, treeSeen>>
    /\ UNCHANGED <<cacheVars, otherVars>>

\* const tree = await this.buildTree(dimension)
BuildTreeOk ==
    /\ fPc = "rebuild"
    /\ dims # <<>>
    /\ BuildTree(store, Head(dims)).ok
    /\ tree' = BuildTree(store, Head(dims)).parent
    /\ fPc' = "replace"
    /\ UNCHANGED <<source, srcChanges, store, treeCache, offset, results, pageLen, unit,
                   dims, passes, report, lastError, passDirty, cleanPasses, snap,
                   treeSeen>>
    /\ UNCHANGED <<cacheVars, otherVars>>

\* buildTree throws HierarchyCycleError: the exception leaves rebuildHierarchyCache
BuildTreeFailed ==
    /\ fPc = "rebuild"
    /\ dims # <<>>
    /\ ~BuildTree(store, Head(dims)).ok
    /\ lastError' = "HierarchyCycleError"
    /\ dims' = <<>>
    /\ fPc' = "idle"
    /\ UNCHANGED <<source, srcChanges, store, treeCache, offset, results, pageLen, unit,
                   tree, passes, report, passDirty, cleanPasses, snap, treeSeen>>
    /\ UNCHANGED <<cacheVars, otherVars>>

\* await db.unitHierarchyCache.replaceOne({dimension}, {dimension, tree, allNodes, lastRebuilt})
ReplaceTree ==
    /\ fPc = "replace"
    /\ treeCache' = ReplaceOne(treeCache, Head(dims), TreeDocument(Head(dims), tree, now))
    /\ dims' = Tail(dims)
    /\ tree' = <<>>
    /\ fPc' = "rebuild"
    /\ UNCHANGED <<source, srcChanges, store, offset, results, pageLen, unit, passes,
                   report, lastError, passDirty, cleanPasses, snap, treeSeen>>
    /\ UNCHANGED <<cacheVars, otherVars>>

RebuildDone ==
    /\ fPc = "rebuild"
    /\ dims = <<>>
    /\ fPc' = "idle"
    /\ UNCHANGED <<source, srcChanges, store, treeCache, offset, results, pageLen, unit,
                   dims, tree, passes, report, lastError, passDirty, cleanPasses, snap,
                   treeSeen>>
    /\ UNCHANGED <<cacheVars, otherVars>>

\* getTree(dimension): a reader reads the one document of the dimension
GetTree(d) ==
    /\ treeSeen' = treeCache[d]
    /\ UNCHANGED <<source, srcChanges, store, treeCache, fPc, offset, results, pageLen,
                   unit, dims, tree, passes, report, lastError, passDirty, cleanPasses,
                   snap>>
    /\ UNCHANGED <<cacheVars, otherVars>>

---------------------------------------------------------------------------
(* Overlapping sync passes: two runs of syncFromFinto, each observed at one *)
(* concept of its loop                                                       *)

NumWriters == 2

Writers == 1..NumWriters

OverlapInit ==
    /\ wPc = [w \in Writers |-> "idle"]
    /\ wUnit = [w \in Writers |-> NoUnit]

\* no pass overlaps another
OverlapAtRest == OverlapInit

\* const details = await fetch(data?uri=...); const unit = this.transformToSchema(details)
WriterFetchDetails(w) ==
    /\ wPc[w] = "idle"
    /\ \E u \in 1..source.size :
          wUnit' = [wUnit EXCEPT ![w] = TransformToSchema(ConceptDetails(source, u))]
    /\ wPc' = [wPc EXCEPT ![w] = "upsert"]
    /\ UNCHANGED <<cacheVars, fintoVars, outsideOverlap>>

\* await db.unitOfMeasurement.updateOne({uri: unit.uri}, ..., {upsert: true}):
\* the filter names the uri alone
WriterUpsert(w) ==
    /\ wPc[w] = "upsert"
    /\ store' = UpdateOneUpsert(store, wUnit[w], now)
    /\ wPc' = [wPc EXCEPT ![w] = "done"]
    /\ wUnit' = [wUnit EXCEPT ![w] = NoUnit]
    /\ UNCHANGED <<source, srcChanges, treeCache, fPc, offset, results, pageLen, unit,
                   dims, tree, passes, report, lastError, passDirty, cleanPasses, snap,
                   treeSeen>>
    /\ UNCHANGED <<cacheVars, outsideOverlap>>

---------------------------------------------------------------------------
(* Setup of the unit_of_measurement collection and its TTL index.  Time 0 *)
(* is 2025-01-15, the fintoLastFetched of the sample units.                *)

\* metadata.cacheExpiry of the sample units, 2025-02-15: 31 days after time 0
SampleCacheExpiry == 744

\* the sample units: Cel (temperature) and atm (pressure); their broader units
\* (K, Pa) are not among the samples
SampleUnits ==
    <<[uri |-> 1, label |-> 1, dimension |-> "temperature", broader |-> {},
       broaderTransitive |-> {}, lastModified |-> 0, cacheExpiry |-> SampleCacheExpiry],
      [uri |-> 2, label |-> 1, dimension |-> "pressure", broader |-> {},
       broaderTransitive |-> {}, lastModified |-> 0, cacheExpiry |-> SampleCacheExpiry]>>

SetupInit ==
    /\ setupPc = "start"
    /\ ttlIndex = FALSE
    /\ everStored = {}
    /\ opDeleted = {}

\* the setup script is not observed
SetupAtRest == SetupInit

\* the documents of coll at the indexes of idx, in order
DocsAt(coll, idx) ==
    LET order == SeqOfSet(idx)
    IN [i \in 1..Len(order) |-> coll[order[i]]]

\* insertMany(docs, {ordered: false}) under the unique index on uri: the
\* documents whose uri is already stored are rejected (error 11000), the others inserted
InsertMany(coll, docs) ==
    coll \o DocsAt(docs, {i \in 1..Len(docs) : docs[i].uri \notin StoredURIs(coll)})

\* the TTL monitor: a document whose indexed date has passed is removed; a
\* document without the field is left alone
TtlExpire(coll, t) ==
    DocsAt(coll, {i \in 1..Len(coll) :
                     ~("cacheExpiry" \in DOMAIN coll[i] /\ coll[i].cacheExpiry <= t)})

\* deleteOne({uri: u})
DeleteOne(coll, u) ==
    DocsAt(coll, {i \in 1..Len(coll) : coll[i].uri # u})

\* createUnitOfMeasurementCollection(): the collection does not exist yet
CreateUnitCollection ==
    /\ setupPc = "start"
    /\ setupPc' = "indexes"
    /\ UNCHANGED <<ttlIndex, everStored, opDeleted>>
    /\ UNCHANGED <<cacheVars, fintoVars, outsideSetup>>

\* createIndexes(): among them idx_uri (unique) and idx_cache_expiry (expireAfterSeconds: 0)
CreateIndexes ==
    /\ setupPc = "indexes"
    /\ ttlIndex' = TRUE
    /\ setupPc' = "insert"
    /\ UNCHANGED <<everStored, opDeleted>>
    /\ UNCHANGED <<cacheVars, fintoVars, outsideSetup>>

\* insertSampleUnits()
InsertSampleUnits ==
    /\ setupPc = "insert"
    /\ store' = InsertMany(store, SampleUnits)
    /\ everStored' = everStored \cup StoredURIs(store')
    /\ setupPc' = "done"
    /\ UNCHANGED <<ttlIndex, opDeleted>>
    /\ UNCHANGED <<source, srcChanges, treeCache, fPc, offset, results, pageLen, unit,
                   dims, tree, passes, report, lastError, passDirty, cleanPasses, snap,
                   treeSeen>>
    /\ UNCHANGED <<cacheVars, outsideSetup>>

\* MongoDB's TTL monitor runs over idx_cache_expiry
TtlMonitor ==
    /\ ttlIndex
    /\ TtlExpire(store, now) # store
    /\ store' = TtlExpire(store, now)
    /\ UNCHANGED setupVars
    /\ UNCHANGED <<source, srcChanges, treeCache, fPc, offset, results, pageLen, unit,
                   dims, tree, passes, report, lastError, passDirty, cleanPasses, snap,
                   treeSeen>>
    /\ UNCHANGED <<cacheVars, outsideSetup>>

\* an operator deletes a record explicitly
OperatorDelete(u) ==
    /\ u \in StoredURIs(store)
    /\ store' = DeleteOne(store, u)
    /\ opDeleted' = opDeleted \cup {u}
    /\ UNCHANGED <<setupPc, ttlIndex, everStored>>
    /\ UNCHANGED <<source, srcChanges, treeCache, fPc, offset, results, pageLen, unit,
                   dims, tree, passes, report, lastError, passDirty, cleanPasses, snap,
                   treeSeen>>
    /\ UNCHANGED <<cacheVars, outsideSetup>>

---------------------------------------------------------------------------
(* Unit conversion in the aggregation pipeline (QUERY 3).  A field of a    *)
(* document is a number, null, or missing.                                  *)

MaxResult == 3

Num(n) == [kind |-> "number", value |-> n]
Null == [kind |-> "null"]
Missing == [kind |-> "missing"]

Operations == {"multiply", "divide", "add", "subtract"}

\* toBaseUnit.factor of the units: 101325 (atm), 1 (Cel), 2, or no number
Factors == {Num(101325), Num(1), Num(2), Null, Missing}

\* the unit documents an observation can be joined to; without a conversion
\* block the factor and the base unit code are missing
UnitDocs ==
    {[factor |-> f, operation |-> op, isBaseUnit |-> b,
      baseUnitCode |-> IF f.kind = "number" THEN [kind |-> "code"] ELSE f] :
        f \in Factors, op \in Operations, b \in BOOLEAN}

NoOutput ==
    [done |-> FALSE, convertedResult |-> Missing, baseUnit |-> Missing, error |-> "none"]

\* {$ne: [x, null]}: only null equals null, a missing field does not
NeNull(x) == x.kind # "null"

\* {$multiply: [a, b]}: null when an operand is null or missing
Multiply(a, b) ==
    IF a.kind = "number" /\ b.kind = "number" THEN Num(a.value * b.value) ELSE Null

\* convertedResult of $addFields
ConvertedResult(result, u) ==
    IF NeNull(u.factor) THEN Multiply(Num(result), u.factor) ELSE Num(result)

\* baseUnit of $addFields: the unit's base unit code, else the datastream's own symbol
BaseUnit(u) ==
    IF NeNull(u.baseUnitCode) THEN u.baseUnitCode ELSE [kind |-> "symbol"]

ConvInit ==
    /\ obsResult \in 0..MaxResult
    /\ obsUnit \in UnitDocs
    /\ convOut = NoOutput

\* the query is not run
ConvAtRest ==
    /\ obsResult = 0
    /\ obsUnit = [factor |-> Missing, operation |-> "multiply", isBaseUnit |-> FALSE,
                  baseUnitCode |-> Missing]
    /\ convOut = NoOutput

\* the $addFields stage on one observation
AddConversionFields ==
    /\ ~convOut.done
    /\ convOut' = [done |-> TRUE,
                   convertedResult |-> ConvertedResult(obsResult, obsUnit),
                   baseUnit |-> BaseUnit(obsUnit),
                   error |-> "none"]
    /\ UNCHANGED <<obsResult, obsUnit, rtPc, rtValue, rtThere, rtBack>>
    /\ UNCHANGED <<cacheVars, fintoVars, outsideConv>>

\* the next observation of the pipeline
NextObservation ==
    /\ convOut.done
    /\ obsResult' \in 0..MaxResult
    /\ obsUnit' \in UnitDocs
    /\ convOut' = NoOutput
    /\ UNCHANGED <<rtPc, rtValue, rtThere, rtBack>>
    /\ UNCHANGED <<cacheVars, fintoVars, outsideConv>>

---------------------------------------------------------------------------
(* Conversion with the factors of the unitConversionCache document (atm to *)
(* Pa), in exact decimal arithmetic.  A wide natural is [hi, lo], standing *)
(* for hi * 10^6 + lo.                                                      *)

\* conversion.factor
ForwardFactor == 101325
\* conversion.reverse.factor, 0.00000986923: its digits and its decimal places
ReverseDigits == 986923
ReverseScale == 11

Wide(h, l) == [hi |-> h, lo |-> l]

\* the product of two naturals below 10^6, as a wide natural
MulWide(a, b) ==
    LET a1 == a \div 1000
        a0 == a % 1000
        b1 == b \div 1000
        b0 == b % 1000
        mid == a1 * b0 + a0 * b1
        low == (mid % 1000) * 1000 + a0 * b0
    IN Wide(a1 * b1 + (mid \div 1000) + (low \div 1000000), low % 1000000)

\* v as a wide decimal in units of 10^-ReverseScale
Scaled(v) == Wide(v * 100000, 0)

\* x - y for wide naturals that are near each other
WideDiff(x, y) == (x.hi - y.hi) * 1000000 + (x.lo - y.lo)

RoundTripInit ==
    /\ rtPc = "start"
    /\ rtValue \in 0..MaxResult
    /\ rtThere = 0
    /\ rtBack = Wide(0, 0)

RoundTripAtRest ==
    /\ rtPc = "start"
    /\ rtValue = 0
    /\ rtThere = 0
    /\ rtBack = Wide(0, 0)

\* convert(v, fromUri, toUri): conversion.operation (multiply) with conversion.factor
ConvertForward ==
    /\ rtPc = "start"
    /\ rtThere' = rtValue * ForwardFactor
    /\ rtPc' = "there"
    /\ UNCHANGED <<obsResult, obsUnit, convOut, rtValue, rtBack>>
    /\ UNCHANGED <<cacheVars, fintoVars, outsideConv>>

\* convert(v', toUri, fromUri): reverse.operation (multiply) with reverse.factor
ConvertReverse ==
    /\ rtPc = "there"
    /\ rtBack' = MulWide(rtThere, ReverseDigits)
    /\ rtPc' = "back"
    /\ UNCHANGED <<obsResult, obsUnit, convOut, rtValue, rtThere>>
    /\ UNCHANGED <<cacheVars, fintoVars, outsideConv>>

\* the next value
NextRoundTrip ==
    /\ rtPc = "back"
    /\ rtValue' \in 0..MaxResult
    /\ rtThere' = 0
    /\ rtBack' = Wide(0, 0)
    /\ rtPc' = "start"
    /\ UNCHANGED <<obsResult, obsUnit, convOut>>
    /\ UNCHANGED <<cacheVars, fintoVars, outsideConv>>

---------------------------------------------------------------------------
(* Date dimension: generateDateRecord, in Go and in JavaScript *)

LastYear == 2025
NumYears == 2

FirstYear == LastYear - NumYears + 1

\* is the year a leap year of the Gregorian calendar?
IsLeapYear(year) == year % 4 = 0 /\ (year % 100 # 0 \/ year % 400 = 0)

\* the number of days of a month, February always short
DaysInCommonYear(year, month) ==
    IF month = 2 THEN 28 ELSE IF month \in {4, 6, 9, 11} THEN 30 ELSE 31

\* the number of days of a month of a year
DaysIn(year, month) ==
    IF month = 2 THEN (IF IsLeapYear(year) THEN 29 ELSE 28)
    ELSE IF month \in {4, 6, 9, 11} THEN 30 ELSE 31

\* the days from 0001-01-01 to the first of January of the year
DaysBeforeYear(year) ==
    365 * (year - 1) + (year - 1) \div 4 - (year - 1) \div 100 + (year - 1) \div 400

RECURSIVE DaysBeforeMonth(_, _)
\* the days of the year before the first of the month
DaysBeforeMonth(year, month) ==
    IF month = 1 THEN 0 ELSE DaysBeforeMonth(year, month - 1) + DaysIn(year, month - 1)

\* the day of the year, from 1 (time.Time.YearDay)
YearDay(year, month, day) == DaysBeforeMonth(year, month) + day

\* the absolute day number of a calendar day: 0001-01-01 is day 0
AbsDay(year, month, day) == DaysBeforeYear(year) + YearDay(year, month, day) - 1

RECURSIVE YearOfAbs(_, _)
\* the year an absolute day falls in, searched from year y on
YearOfAbs(n, y) == IF n < DaysBeforeYear(y + 1) THEN y ELSE YearOfAbs(n, y + 1)

RECURSIVE MonthOfYearDay(_, _, _)
\* the month a day of the year falls in, searched from month m on
MonthOfYearDay(year, yd, m) ==
    IF yd <= DaysBeforeMonth(year, m) + DaysIn(year, m) THEN m
    ELSE MonthOfYearDay(year, yd, m + 1)

\* the calendar day of an absolute day number (time.Time.Date)
CivilOf(n) ==
    LET y == YearOfAbs(n, FirstYear - 1)
        yd == n - DaysBeforeYear(y) + 1
        mo == MonthOfYearDay(y, yd, 1)
    IN  [year |-> y, month |-> mo, day |-> yd - DaysBeforeMonth(y, mo)]

\* time.Time.Weekday of an absolute day: Sunday is 0; 0001-01-01 is a Monday
Weekday(n) == (n + 1) % 7

Years == FirstYear..LastYear
Months == 1..12

NoRecord == [done |-> FALSE]

\* the calendar quarter, in place of the fiscal one
GetFiscalQuarterCalendar(month) == (month - 1) \div 3 + 1

\* models.GetFiscalYear
GetFiscalYear(year, month) == IF month >= 7 THEN year + 1 ELSE year

\* models.GetFiscalQuarter
GetFiscalQuarter(month) ==
    IF month >= 7 THEN (month - 7) \div 3 + 1 ELSE (month + 5) \div 3 + 1

\* models.GetFiscalMonth
GetFiscalMonth(month) == IF month >= 7 THEN month - 6 ELSE month + 6

\* Math.ceil(a / b) for naturals
Ceil(a, b) == (a + b - 1) \div b

\* Go's integer division: the quotient is truncated toward zero
Quot(a, b) == IF a >= 0 THEN a \div b ELSE -((-a) \div b)

\* Math.floor(a / b)
Floor(a, b) == a \div b

\* holidays, HOLIDAYS: the month and day of each
Holidays == {<<1, 1>>, <<7, 1>>, <<12, 25>>, <<12, 26>>}

\* a string value
Str(s) == [kind |-> "string", value |-> s]

HolidayNameOf(month, day) ==
    IF <<month, day>> = <<1, 1>> THEN "New Year's Day"
    ELSE IF <<month, day>> = <<7, 1>> THEN "Canada Day"
    ELSE IF <<month, day>> = <<12, 25>> THEN "Christmas Day"
    ELSE IF <<month, day>> = <<12, 26>> THEN "Boxing Day" ELSE ""

\* models.GetSeason and the season of the script
GetSeason(month) ==
    IF month >= 3 /\ month <= 5 THEN "Spring"
    ELSE IF month >= 6 /\ month <= 8 THEN "Summer"
    ELSE IF month >= 9 /\ month <= 11 THEN "Autumn" ELSE "Winter"

\* the Thursday of the ISO week of an absolute day whose weekday is dow
ThursdayOf(n, dow) == n + (4 - (IF dow = 0 THEN 7 ELSE dow))

\* the day of the year of an absolute day
YearDayOfAbs(n) == n - DaysBeforeYear(CivilOf(n).year) + 1

\* the fields of a record that the two generators are compared on
RecordFields ==
    {"id", "year", "quarter", "month", "week", "day", "isoWeek", "isoYear",
     "isoDayOfWeek", "dayOfWeek", "dayOfMonth", "dayOfQuarter", "dayOfYear",
     "weekOfMonth", "weekOfYear", "isWeekday", "isWeekend", "isHoliday",
     "holidayName", "isBusinessDay", "fiscalYear", "fiscalQuarter", "fiscalMonth",
     "daysInMonth", "isLeapYear", "isLastDayOfMonth", "season",
     "daysFromToday", "weeksFromToday", "monthsFromToday", "quartersFromToday"}

\* generateDateRecord of the Go service, as the driver writes the record
\* (holiday_name is tagged omitempty); d.today is time.Now().Truncate(24h)
GoDateRecord(d) ==
    LET n == AbsDay(d.year, d.month, d.day)
        dayOfWeek == Weekday(n)
        quarter == Quot(d.month - 1, 3) + 1
        isHoliday == <<d.month, d.day>> \in Holidays
        daysInMonth == DaysIn(d.year, d.month)
        diffDays == n - d.today
        isWeekday == dayOfWeek # 0 /\ dayOfWeek # 6
        thursday == ThursdayOf(n, dayOfWeek)
    IN  [done |-> TRUE, by |-> "go",
         id |-> d.year * 10000 + d.month * 100 + d.day,
         year |-> d.year, quarter |-> quarter, month |-> d.month,
         week |-> Quot(d.day - 1, 7) + 1, day |-> d.day,
         isoWeek |-> Quot(YearDayOfAbs(thursday) - 1, 7) + 1,
         isoYear |-> CivilOf(thursday).year,
         isoDayOfWeek |-> IF dayOfWeek = 0 THEN 7 ELSE dayOfWeek,
         dayOfWeek |-> IF dayOfWeek = 0 THEN 7 ELSE dayOfWeek,
         dayOfMonth |-> d.day,
         dayOfQuarter |-> n - AbsDay(d.year, (quarter - 1) * 3 + 1, 1) + 1,
         dayOfYear |-> YearDay(d.year, d.month, d.day),
         weekOfMonth |-> Quot(d.day - 1, 7) + 1,
         weekOfYear |-> Quot(YearDay(d.year, d.month, d.day) - 1, 7) + 1,
         isWeekday |-> isWeekday,
         isWeekend |-> ~isWeekday,
         isHoliday |-> isHoliday,
         holidayName |-> IF isHoliday THEN Str(HolidayNameOf(d.month, d.day)) ELSE Missing,
         isBusinessDay |-> isWeekday /\ ~isHoliday,
         fiscalYear |-> GetFiscalYear(d.year, d.month),
         fiscalQuarter |-> GetFiscalQuarter(d.month),
         fiscalMonth |-> GetFiscalMonth(d.month),
         daysInMonth |-> daysInMonth,
         isLeapYear |-> d.year % 4 = 0 /\ (d.year % 100 # 0 \/ d.year % 400 = 0),
         isLastDayOfMonth |-> d.day = daysInMonth,
         season |-> GetSeason(d.month),
         daysFromToday |-> diffDays,
         weeksFromToday |-> Quot(diffDays, 7),
         monthsFromToday |-> Quot(diffDays, 30),
         quartersFromToday |-> Quot(diffDays, 90)]

\* generateDateRecord of the JavaScript setup script; d.today is today after
\* setHours(0, 0, 0, 0)
JsDateRecord(d) ==
    LET n == AbsDay(d.year, d.month, d.day)
        dayOfWeek == Weekday(n)
        quarter == Ceil(d.month, 3)
        isHoliday == <<d.month, d.day>> \in Holidays
        daysInMonth == DaysIn(d.year, d.month)
        diffDays == Floor(n - d.today, 1)
        thursday == ThursdayOf(n, dayOfWeek)
    IN  [done |-> TRUE, by |-> "js",
         id |-> d.year * 10000 + d.month * 100 + d.day,
         year |-> d.year, quarter |-> quarter, month |-> d.month,
         week |-> Ceil(d.day, 7), day |-> d.day,
         isoWeek |-> Ceil(YearDayOfAbs(thursday), 7),
         isoYear |-> CivilOf(thursday).year,
         isoDayOfWeek |-> IF dayOfWeek = 0 THEN 7 ELSE dayOfWeek,
         dayOfWeek |-> IF dayOfWeek = 0 THEN 7 ELSE dayOfWeek,
         dayOfMonth |-> d.day,
         dayOfQuarter |-> Floor(n - AbsDay(d.year, (quarter - 1) * 3 + 1, 1), 1) + 1,
         dayOfYear |-> Floor(n - AbsDay(d.year, 1, 1), 1) + 1,
         weekOfMonth |-> Ceil(d.day, 7),
         weekOfYear |-> Ceil(n - AbsDay(d.year, 1, 1) + 1, 7),
         isWeekday |-> dayOfWeek # 0 /\ dayOfWeek # 6,
         isWeekend |-> dayOfWeek = 0 \/ dayOfWeek = 6,
         isHoliday |-> isHoliday,
         holidayName |-> IF isHoliday THEN Str(HolidayNameOf(d.month, d.day)) ELSE Null,
         isBusinessDay |-> dayOfWeek # 0 /\ dayOfWeek # 6 /\ ~isHoliday,
         fiscalYear |-> IF d.month >= 7 THEN d.year + 1 ELSE d.year,
         fiscalQuarter |-> IF d.month >= 7 THEN Ceil(d.month - 6, 3) ELSE Ceil(d.month + 6, 3),
         fiscalMonth |-> IF d.month >= 7 THEN d.month - 6 ELSE d.month + 6,
         daysInMonth |-> daysInMonth,
         isLeapYear |-> (d.year % 4 = 0 /\ d.year % 100 # 0) \/ d.year % 400 = 0,
         isLastDayOfMonth |-> d.day = daysInMonth,
         season |-> GetSeason(d.month),
         daysFromToday |-> diffDays,
         weeksFromToday |-> Floor(diffDays, 7),
         monthsFromToday |-> Floor(diffDays, 30),
         quartersFromToday |-> Floor(diffDays, 90)]

\* today, for the relative offsets: a day inside the range and its last day
Todays == {AbsDay(LastYear, 1, 8), AbsDay(LastYear, 12, 31)}

\* the dates of the range, each with a value of today
DateInputs ==
    {d \in [year : Years, month : Months, day : 1..31, today : Todays] :
        d.day <= DaysIn(d.year, d.month)}

DateInit ==
    /\ dateIn \in DateInputs
    /\ dateRec = NoRecord

\* no record is being generated
DateAtRest ==
    /\ dateIn = [year |-> LastYear, month |-> 1, day |-> 1, today |-> AbsDay(LastYear, 1, 8)]
    /\ dateRec = NoRecord

\* date := s.generateDateRecord(current, holidays)
GenerateDateRecord ==
    /\ ~dateRec.done
    /\ dateRec' = GoDateRecord(dateIn)
    /\ UNCHANGED dateIn
    /\ UNCHANGED <<cacheVars, fintoVars, outsideDate>>

\* generateDateRecord(date) of the setup script
GenerateDateRecordJs ==
    /\ ~dateRec.done
    /\ dateRec' = JsDateRecord(dateIn)
    /\ UNCHANGED dateIn
    /\ UNCHANGED <<cacheVars, fintoVars, outsideDate>>

\* the loop goes on to another date
NextDate ==
    /\ dateRec.done
    /\ LET next == CivilOf(AbsDay(dateIn.year, dateIn.month, dateIn.day) + 1)
       IN  /\ next.year <= LastYear
           /\ dateIn' = [year |-> next.year, month |-> next.month, day |-> next.day,
                         today |-> dateIn.today]
    /\ dateRec' = NoRecord
    /\ UNCHANGED <<cacheVars, fintoVars, outsideDate>>

---------------------------------------------------------------------------
(* Schema initialisation: initializeSchemas, CreateObservationCollection,  *)
(* CreateObservationIndexes                                                 *)

\* len(indexes)
NumObsIndexes == 7

ObsIndexes == 1..NumObsIndexes

\* the errors the server answers a create command with
CreateErrors == {"NamespaceExists", "Other"}

\* the errors the server answers a createIndexes command with; none of the
\* indexes is unique, so building one finds no duplicate key
IndexErrors == {"IndexOptionsConflict", "Other"}

\* an error that says the thing exists, whatever its code
IsAlreadyExistsError(err) == err \in {"DuplicateKey", "NamespaceExists", "IndexOptionsConflict"}

\* mongo.IsDuplicateKeyError(err): the duplicate key codes (11000, 11001, 12582)
IsDuplicateKeyError(err) == err = "DuplicateKey"

SchemaInit ==
    /\ obsColl = FALSE
    /\ obsIndexes = {}
    /\ initPc = "idle"
    /\ initNext = 1
    /\ initResult = "none"

\* the application is not started
SchemaAtRest == SchemaInit

\* Option 1 of the setup: the collection is created in the Atlas UI
ManualCreateCollection ==
    /\ ~obsColl
    /\ obsColl' = TRUE
    /\ UNCHANGED <<obsIndexes, initPc, initNext, initResult>>
    /\ UNCHANGED <<cacheVars, fintoVars, outsideSchema>>

\* Option 1 of the setup: an index is configured with Compass
ManualCreateIndex(i) ==
    /\ obsColl
    /\ i \notin obsIndexes
    /\ obsIndexes' = obsIndexes \cup {i}
    /\ UNCHANGED <<obsColl, initPc, initNext, initResult>>
    /\ UNCHANGED <<cacheVars, fintoVars, outsideSchema>>

\* initializeSchemas is called
InitializeSchemas ==
    /\ initPc = "idle"
    /\ initPc' = "create"
    /\ initNext' = 1
    /\ initResult' = "none"
    /\ UNCHANGED <<obsColl, obsIndexes>>
    /\ UNCHANGED <<cacheVars, fintoVars, outsideSchema>>

\* db.CreateCollection returns nil: the collection is created; a server that
\* takes a create with the options of the existing collection as done also answers so
CreateCollectionOk ==
    /\ initPc = "create"
    /\ obsColl' = TRUE
    /\ initPc' = "indexes"
    /\ UNCHANGED <<obsIndexes, initNext, initResult>>
    /\ UNCHANGED <<cacheVars, fintoVars, outsideSchema>>

\* db.CreateCollection returns an error: NamespaceExists only when the collection exists
CreateCollectionFailed ==
    /\ initPc = "create"
    /\ \E err \in CreateErrors :
          /\ err = "NamespaceExists" => obsColl
          /\ initResult' = IF ~IsDuplicateKeyError(err) THEN "error" ELSE "nil"
    /\ initPc' = "returned"
    /\ UNCHANGED <<obsColl, obsIndexes, initNext>>
    /\ UNCHANGED <<cacheVars, fintoVars, outsideSchema>>

\* collection.Indexes().CreateOne returns nil: the index exists from now on
CreateIndexOk ==
    /\ initPc = "indexes"
    /\ initNext <= NumObsIndexes
    /\ obsIndexes' = obsIndexes \cup {initNext}
    /\ initNext' = initNext + 1
    /\ UNCHANGED <<obsColl, initPc, initResult>>
    /\ UNCHANGED <<cacheVars, fintoVars, outsideSchema>>

\* collection.Indexes().CreateOne returns an error
CreateIndexFailed ==
    /\ initPc = "indexes"
    /\ initNext <= NumObsIndexes
    /\ \E err \in IndexErrors :
          /\ err = "IndexOptionsConflict" => initNext \in obsIndexes
          /\ IF ~IsDuplicateKeyError(err)
             THEN /\ initResult' = "error"
                  /\ initPc' = "returned"
                  /\ initNext' = initNext
             ELSE /\ initResult' = initResult
                  /\ initPc' = initPc
                  /\ initNext' = initNext + 1
    /\ UNCHANGED <<obsColl, obsIndexes>>
    /\ UNCHANGED <<cacheVars, fintoVars, outsideSchema>>

\* the loop is over: CreateObservationIndexes returns nil, and so does initializeSchemas
IndexesDone ==
    /\ initPc = "indexes"
    /\ initNext > NumObsIndexes
    /\ initResult' = "nil"
    /\ initPc' = "returned"
    /\ UNCHANGED <<obsColl, obsIndexes, initNext>>
    /\ UNCHANGED <<cacheVars, fintoVars, outsideSchema>>

\* the application is run again
RunAgain ==
    /\ initPc = "returned"
    /\ initPc' = "idle"
    /\ initNext' = 1
    /\ UNCHANGED <<obsColl, obsIndexes, initResult>>
    /\ UNCHANGED <<cacheVars, fintoVars, outsideSchema>>

---------------------------------------------------------------------------
(* Observation repository: ObservationRepository.Insert and InsertMany *)

MaxObs == 2
MaxBatch == 2

\* a time.Time is an instant, in hours from 0001-01-01T00:00Z, and the offset
\* of its location from UTC, in hours
SampleDays ==
    {AbsDay(FirstYear, 2, 29), AbsDay(FirstYear, 12, 31), AbsDay(LastYear, 1, 1),
     AbsDay(LastYear, 1, 15)}
SampleHours == {0, 14, 23}
Offsets == {-7, 0, 2}

\* time.Now() runs in the local zone, time.Now().UTC() in UTC
Times == [inst : {d * 24 + h : d \in SampleDays, h \in SampleHours}, off : Offsets]

\* the wall clock of a time in its location, in hours
Wall(t) == t.inst + t.off

\* t.Year(), t.Month(), t.Day(): the calendar day in the location of t
DateOf(t) == CivilOf(Wall(t) \div 24)

\* t.Hour()
Hour(t) == Wall(t) % 24

\* the date and time the driver writes: a BSON datetime is the instant, in UTC
BsonDateTime(t) == [inst |-> t.inst, off |-> 0]

\* models.GetDateKey
GetDateKey(t) == DateOf(t).year * 10000 + DateOf(t).month * 100 + DateOf(t).day

\* models.GetHourBucket
GetHourBucket(t) == Hour(t)

\* an int field tagged omitempty: the zero value is left out of the document
OmitEmpty(n) == IF n = 0 THEN Missing ELSE Num(n)

\* the document the driver writes for an observation whose DateKey and
\* HourBucket are set (both fields are tagged omitempty)
ObservationDoc(t) ==
    [phenomenonTime |-> BsonDateTime(t),
     date_key |-> OmitEmpty(GetDateKey(t)),
     hour_bucket |-> OmitEmpty(GetHourBucket(t))]

RepoInit == obsStored = {}

\* nothing is inserted
RepoAtRest == RepoInit

\* ObservationRepository.Insert, InsertOne succeeding
Insert(t) ==
    /\ Cardinality(obsStored \cup {ObservationDoc(t)}) <= MaxObs
    /\ obsStored' = obsStored \cup {ObservationDoc(t)}
    /\ UNCHANGED <<cacheVars, fintoVars, outsideRepo>>

\* ObservationRepository.Insert, InsertOne failing: the error is returned
InsertFailed(t) ==
    /\ obsStored' = obsStored
    /\ UNCHANGED <<cacheVars, fintoVars, outsideRepo>>

\* ObservationRepository.InsertMany: the unordered insert stores every
\* document (no error) or the documents that did not fail (error returned)
InsertManyObservations(ts, ok) ==
    LET docs == [i \in DOMAIN ts |-> ObservationDoc(ts[i])]
        new == {docs[i] : i \in ok}
    IN  /\ Cardinality(obsStored \cup new) <= MaxObs
        /\ obsStored' = obsStored \cup new
        /\ UNCHANGED <<cacheVars, fintoVars, outsideRepo>>

---------------------------------------------------------------------------
(* Date dimension load: GenerateDateRange, in Go and in JavaScript *)

MaxRangeDays == 3

\* the arguments tried: days around the turn of the year, at midnight or
\* in the afternoon, in three zones
RangeTimes ==
    [inst : {d * 24 + h : d \in AbsDay(FirstYear, 12, 30)..(AbsDay(FirstYear, 12, 30) + MaxRangeDays),
                         h \in {0, 14}},
     off : Offsets]

RangeInit ==
    /\ startDate \in RangeTimes
    /\ endDate \in RangeTimes
    /\ rangeBy \in {"go", "js"}
    /\ rangeBy = "js" => endDate.off = startDate.off
    /\ current = startDate.inst
    /\ dates = <<>>
    /\ rangePc = "loop"

\* no range is being generated
RangeAtRest ==
    /\ startDate = [inst |-> AbsDay(LastYear, 1, 1) * 24, off |-> 0]
    /\ endDate = [inst |-> AbsDay(LastYear, 1, 1) * 24, off |-> 0]
    /\ rangeBy = "go"
    /\ current = startDate.inst
    /\ dates = <<>>
    /\ rangePc = "idle"

\* GenerateDateRange, the loop body: date := s.generateDateRecord(current, holidays);
\* current = current.AddDate(0, 0, 1), a day later on the wall clock of its location
GenerateDateRangeStep ==
    /\ rangePc = "loop"
    /\ rangeBy = "go"
    /\ ~(current > endDate.inst)
    /\ dates' = Append(dates, GetDateKey([inst |-> current, off |-> startDate.off]))
    /\ current' = current + 24
    /\ UNCHANGED <<startDate, endDate, rangeBy, rangePc, batchVars>>
    /\ UNCHANGED <<cacheVars, fintoVars, outsideLoad>>

\* generateDateRange of the script, the loop body: the record takes the day of
\* the local zone (getFullYear, getMonth, getDate); setDate(getDate() + 1)
GenerateDateRangeJsStep ==
    /\ rangePc = "loop"
    /\ rangeBy = "js"
    /\ current <= endDate.inst
    /\ dates' = Append(dates, GetDateKey([inst |-> current, off |-> startDate.off]))
    /\ current' = current + 24
    /\ UNCHANGED <<startDate, endDate, rangeBy, rangePc, batchVars>>
    /\ UNCHANGED <<cacheVars, fintoVars, outsideLoad>>

\* the loop condition fails: the records are returned
GenerateDateRangeReturn ==
    /\ rangePc = "loop"
    /\ current > endDate.inst
    /\ rangePc' = "done"
    /\ UNCHANGED <<startDate, endDate, rangeBy, current, dates, batchVars>>
    /\ UNCHANGED <<cacheVars, fintoVars, outsideLoad>>

---------------------------------------------------------------------------
(* Date dimension load: InsertDateDimension *)

MaxDocs == 2001

\* batchSize := 1000
BatchSize == 1000

\* the end of a batch that is not cut at len(docs)
BatchEndUncut(i, n) == i + BatchSize

\* end := i + batchSize; if end > len(docs) { end = len(docs) }
BatchEnd(i, n) == IF i + BatchSize > n THEN n ELSE i + BatchSize

BatchInit ==
    /\ numDocs \in 0..MaxDocs
    /\ batchI = 0
    /\ batches = <<>>
    /\ storedDocs = 0
    /\ insertPc = "loop"
    /\ insertResult = "none"

\* nothing is being inserted
BatchAtRest ==
    /\ numDocs = 0
    /\ batchI = 0
    /\ batches = <<>>
    /\ storedDocs = 0
    /\ insertPc = "idle"
    /\ insertResult = "none"

\* collection.InsertMany(ctx, batch) returns nil: docs[i:end] are stored
InsertBatchOk ==
    /\ insertPc = "loop"
    /\ batchI < numDocs
    /\ batches' = Append(batches, <<batchI, BatchEnd(batchI, numDocs)>>)
    /\ storedDocs' = BatchEnd(batchI, numDocs)
    /\ batchI' = batchI + BatchSize
    /\ UNCHANGED <<numDocs, insertPc, insertResult, rangeVars>>
    /\ UNCHANGED <<cacheVars, fintoVars, outsideLoad>>

\* collection.InsertMany(ctx, batch) returns an error: the insert is ordered,
\* the documents before the one that failed are stored; the error is returned
InsertBatchFailed ==
    /\ insertPc = "loop"
    /\ batchI < numDocs
    /\ batches' = Append(batches, <<batchI, BatchEnd(batchI, numDocs)>>)
    /\ \E k \in {batchI, BatchEnd(batchI, numDocs) - 1} : storedDocs' = k
    /\ insertResult' = "error"
    /\ insertPc' = "returned"
    /\ UNCHANGED <<numDocs, batchI, rangeVars>>
    /\ UNCHANGED <<cacheVars, fintoVars, outsideLoad>>

\* the loop is over: return nil
InsertDateDimensionReturn ==
    /\ insertPc = "loop"
    /\ ~(batchI < numDocs)
    /\ insertResult' = "nil"
    /\ insertPc' = "returned"
    /\ UNCHANGED <<numDocs, batchI, batches, storedDocs, rangeVars>>
    /\ UNCHANGED <<cacheVars, fintoVars, outsideLoad>>

---------------------------------------------------------------------------
(* Configuration: config.Load, Config.Validate, getEnv and its variants *)

MaxValueLen == 2

\* the characters of the values of the numeric variables
NumChars == {"-", "7", "x"}

\* the values tried for a numeric variable: every string of these characters
\* up to MaxValueLen, as a sequence of characters; <<>> when it is unset or empty
NumValues == UNION {[1..n -> NumChars] : n \in 0..MaxValueLen}

\* the values tried for a boolean variable
BoolValues == {"", "true", "TRUE", "0", "f", "yes"}

\* the variables Load reads that the model follows: two strings that Validate
\* checks, the environment and the secret, an int, a uint64 and a bool
EnvNames ==
    {"MONGODB_URI", "DATABASE_NAME", "APP_ENV", "JWT_SECRET", "APP_PORT",
     "MAX_POOL_SIZE", "FEATURE_SYNC_ENABLED"}

Envs ==
    [MONGODB_URI : {"", "mongodb://db:27017"},
     DATABASE_NAME : {"", "lake"},
     APP_ENV : {"", "production", "staging"},
     JWT_SECRET : {"", "secret"},
     APP_PORT : NumValues,
     MAX_POOL_SIZE : NumValues,
     FEATURE_SYNC_ENABLED : BoolValues]

NoConfig == [set |-> FALSE]

\* the value of a decimal digit, -1 for another character
DigitOf(c) == IF c = "7" THEN 7 ELSE -1

RECURSIVE ParseDigits(_, _)
\* the number a string of digits writes after the digits read so far gave acc;
\* -1 when a character is not a digit
ParseDigits(str, acc) ==
    IF str = <<>> THEN acc
    ELSE IF DigitOf(Head(str)) < 0 THEN -1
    ELSE ParseDigits(Tail(str), acc * 10 + DigitOf(Head(str)))

\* strconv.ParseUint(s, 10, 64): digits only
ParseUint(str) ==
    IF str = <<>> \/ ParseDigits(str, 0) < 0 THEN [ok |-> FALSE, value |-> 0]
    ELSE [ok |-> TRUE, value |-> ParseDigits(str, 0)]

\* strconv.Atoi: an optional sign, then digits
Atoi(str) ==
    IF str # <<>> /\ Head(str) = "-"
    THEN [ok |-> ParseUint(Tail(str)).ok, value |-> 0 - ParseUint(Tail(str)).value]
    ELSE ParseUint(str)

\* strconv.ParseBool
ParseBool(str) ==
    IF str \in {"1", "t", "T", "TRUE", "true", "True"} THEN [ok |-> TRUE, value |-> TRUE]
    ELSE IF str \in {"0", "f", "F", "FALSE", "false", "False"} THEN [ok |-> TRUE, value |-> FALSE]
    ELSE [ok |-> FALSE, value |-> FALSE]

\* getEnv
GetEnv(key, defaultValue) == IF env[key] # "" THEN env[key] ELSE defaultValue

\* getEnvAsInt with the zero value in place of the default on a parse error
GetEnvAsIntOrZero(key, defaultValue) ==
    IF env[key] = <<>> THEN defaultValue ELSE Atoi(env[key]).value

\* getEnvAsInt
GetEnvAsInt(key, defaultValue) ==
    IF env[key] = <<>> THEN defaultValue
    ELSE IF Atoi(env[key]).ok THEN Atoi(env[key]).value ELSE defaultValue

\* getEnvAsUint64
GetEnvAsUint64(key, defaultValue) ==
    IF env[key] = <<>> THEN defaultValue
    ELSE IF ParseUint(env[key]).ok THEN ParseUint(env[key]).value ELSE defaultValue

\* getEnvAsBool
GetEnvAsBool(key, defaultValue) ==
    IF env[key] = "" THEN defaultValue
    ELSE IF ParseBool(env[key]).ok THEN ParseBool(env[key]).value ELSE defaultValue

\* Config.Validate: "nil" or the message of the error
Validate(c) ==
    IF c.URI = "" THEN "MONGODB_URI is required"
    ELSE IF c.DatabaseName = "" THEN "DATABASE_NAME is required"
    ELSE IF c.Environment = "production" /\ c.JWTSecret = ""
         THEN "JWT_SECRET is required in production"
    ELSE "nil"

\* the cfg that Load fills in from the environment
ConfigFromEnv ==
    [set |-> TRUE,
     URI |-> GetEnv("MONGODB_URI", "mongodb://localhost:27017"),
     DatabaseName |-> GetEnv("DATABASE_NAME", "sensorthings_datalake"),
     MaxPoolSize |-> GetEnvAsUint64("MAX_POOL_SIZE", 10),
     FeatureSyncEnabled |-> GetEnvAsBool("FEATURE_SYNC_ENABLED", TRUE),
     Environment |-> GetEnv("APP_ENV", "development"),
     Port |-> GetEnvAsInt("APP_PORT", 8080),
     JWTSecret |-> GetEnv("JWT_SECRET", "")]

ConfigInit ==
    /\ env \in Envs
    /\ loadPc = "idle"
    /\ loadCfg = NoConfig
    /\ loadErr = "nil"

\* the application is not started
ConfigAtRest ==
    /\ env = [MONGODB_URI |-> "", DATABASE_NAME |-> "", APP_ENV |-> "", JWT_SECRET |-> "",
              APP_PORT |-> <<>>, MAX_POOL_SIZE |-> <<>>, FEATURE_SYNC_ENABLED |-> ""]
    /\ loadPc = "idle"
    /\ loadCfg = NoConfig
    /\ loadErr = "nil"

\* Load: cfg is filled in and validated; nil and the error, or cfg and nil
Load ==
    /\ loadPc = "idle"
    /\ IF Validate(ConfigFromEnv) # "nil"
       THEN /\ loadCfg' = NoConfig
            /\ loadErr' = Validate(ConfigFromEnv)
       ELSE /\ loadCfg' = ConfigFromEnv
            /\ loadErr' = "nil"
    /\ loadPc' = "returned"
    /\ UNCHANGED env
    /\ UNCHANGED <<cacheVars, fintoVars, outsideConfig>>

\* the application is started again, in the same environment
Restart ==
    /\ loadPc = "returned"
    /\ loadPc' = "idle"
    /\ loadCfg' = NoConfig
    /\ loadErr' = "nil"
    /\ UNCHANGED env
    /\ UNCHANGED <<cacheVars, fintoVars, outsideConfig>>

\* the machines defined after the ontology synchronisation, none of them running
OthersAtRest == OverlapAtRest /\ SetupAtRest /\ ConvAtRest /\ RoundTripAtRest /\ DateAtRest /\ SchemaAtRest /\ RepoAtRest /\ RangeAtRest /\ BatchAtRest /\ ConfigAtRest

\* the feature synchronisation job, its clock and the server
FeatureSyncInit == EnvInit /\ JobInit /\ ReaderInit /\ FintoAtRest /\ OthersAtRest

FeatureSyncNext ==
    \/ Tick
    \/ RemoteChange
    \/ SyncStart
    \/ SyncFetch
    \/ SyncNotModified
    \/ SyncReplaceCache
    \/ SyncUpdateAssoc
    \/ SyncOtherStatus
    \/ SyncFetchFailed
    \/ SyncDone

FeatureSyncSpec == FeatureSyncInit /\ [][FeatureSyncNext]_vars

\* the job when the database, too, may reject an operation
FeatureSyncFaultNext ==
    \/ FeatureSyncNext
    \/ SyncUpdateAssocFailed
    \/ SyncCatchFailed

FeatureSyncFaultSpec == FeatureSyncInit /\ [][FeatureSyncFaultNext]_vars

\* concurrent callers of the lazy loader, their clock and the server
LazyLoadInit == EnvInit /\ JobAtRest /\ ReaderInit /\ FintoAtRest /\ OthersAtRest

LazyLoadNext ==
    \/ Tick
    \/ RemoteChange
    \/ \E r \in Readers : ReaderFindOne(r)
    \/ \E r \in Readers : ReaderFetch(r)
    \/ \E r \in Readers : ReaderReturnCached(r)
    \/ \E r \in Readers : ReaderFetchOk(r)
    \/ \E r \in Readers : ReaderFetchFailed(r)
    \/ \E r \in Readers : ReaderUpdate(r)
    \/ \E r \in Readers : ReaderAgain(r)

LazyLoadSpec == LazyLoadInit /\ [][LazyLoadNext]_vars

\* the ontology synchronisation, its reader, its clock and the source
OntologySyncInit == EnvInit /\ JobAtRest /\ ReaderInit /\ FintoInit /\ OthersAtRest

\* the clock's grain is coarser than a pass: it advances between operations
ClockBetweenPasses == Tick /\ fPc = "idle"

OntologySyncNext ==
    \/ ClockBetweenPasses
    \/ SourceChange
    \/ SyncFromFinto
    \/ FetchVocab
    \/ FetchPage
    \/ FetchDetails
    \/ UpsertUnit
    \/ FetchFailed
    \/ NextPage
    \/ LastPage
    \/ RebuildAfterSync
    \/ BuildTreeOk
    \/ BuildTreeFailed
    \/ ReplaceTree
    \/ RebuildDone
    \/ \E d \in Dimensions : GetTree(d)

OntologySyncSpec == OntologySyncInit /\ [][OntologySyncNext]_vars

\* overlapping passes over a source that changes, and the clock
OverlapSyncInit ==
    EnvInit /\ JobAtRest /\ ReaderInit /\ FintoInit /\ OverlapInit /\ SetupAtRest /\ ConvAtRest /\ RoundTripAtRest /\ DateAtRest /\ SchemaAtRest /\ RepoAtRest /\ RangeAtRest /\ BatchAtRest /\ ConfigAtRest

OverlapSyncNext ==
    \/ Tick
    \/ SourceChange
    \/ \E w \in Writers : WriterFetchDetails(w)
    \/ \E w \in Writers : WriterUpsert(w)

OverlapSyncSpec == OverlapSyncInit /\ [][OverlapSyncNext]_vars

\* the setup script, the TTL monitor, an operator, overlapping passes and the clock
UnitStoreInit ==
    EnvInit /\ JobAtRest /\ ReaderInit /\ FintoInit /\ OverlapInit /\ SetupInit /\ ConvAtRest /\ RoundTripAtRest /\ DateAtRest /\ SchemaAtRest /\ RepoAtRest /\ RangeAtRest /\ BatchAtRest /\ ConfigAtRest

UnitStoreNext ==
    \/ Tick
    \/ CreateUnitCollection
    \/ CreateIndexes
    \/ InsertSampleUnits
    \/ TtlMonitor
    \/ \E u \in URIs : OperatorDelete(u)
    \/ \E w \in Writers : WriterFetchDetails(w)
    \/ \E w \in Writers : WriterUpsert(w)

UnitStoreSpec == UnitStoreInit /\ [][UnitStoreNext]_vars

\* the unit conversion query over observations of every unit
ConversionInit ==
    EnvInit /\ JobAtRest /\ ReaderInit /\ FintoAtRest /\ OverlapAtRest /\ SetupAtRest
        /\ ConvInit /\ RoundTripInit /\ DateAtRest /\ SchemaAtRest /\ RepoAtRest /\ RangeAtRest /\ BatchAtRest /\ ConfigAtRest

ConversionNext ==
    \/ AddConversionFields
    \/ NextObservation
    \/ ConvertForward
    \/ ConvertReverse
    \/ NextRoundTrip

ConversionSpec == ConversionInit /\ [][ConversionNext]_vars

\* generateDateRecord over the dates of a range, in both implementations
DateDimensionInit ==
    EnvInit /\ JobAtRest /\ ReaderInit /\ FintoAtRest /\ OverlapAtRest /\ SetupAtRest
        /\ ConvAtRest /\ RoundTripAtRest /\ DateInit /\ SchemaAtRest /\ RepoAtRest /\ RangeAtRest /\ BatchAtRest /\ ConfigAtRest

DateDimensionNext ==
    \/ GenerateDateRecord
    \/ GenerateDateRecordJs
    \/ NextDate

DateDimensionSpec == DateDimensionInit /\ [][DateDimensionNext]_vars

\* runs of initializeSchemas on a database that is also set up by hand
SchemaSetupInit ==
    EnvInit /\ JobAtRest /\ ReaderInit /\ FintoAtRest /\ OverlapAtRest /\ SetupAtRest
        /\ ConvAtRest /\ RoundTripAtRest /\ DateAtRest /\ SchemaInit /\ RepoAtRest /\ RangeAtRest /\ BatchAtRest /\ ConfigAtRest

SchemaSetupNext ==
    \/ ManualCreateCollection
    \/ \E i \in ObsIndexes : ManualCreateIndex(i)
    \/ InitializeSchemas
    \/ CreateCollectionOk
    \/ CreateCollectionFailed
    \/ CreateIndexOk
    \/ CreateIndexFailed
    \/ IndexesDone
    \/ RunAgain

SchemaSetupSpec == SchemaSetupInit /\ [][SchemaSetupNext]_vars

\* observations inserted one by one and in batches
ObservationRepoInit ==
    EnvInit /\ JobAtRest /\ ReaderInit /\ FintoAtRest /\ OverlapAtRest /\ SetupAtRest
        /\ ConvAtRest /\ RoundTripAtRest /\ DateAtRest /\ SchemaAtRest /\ RepoInit /\ RangeAtRest /\ BatchAtRest /\ ConfigAtRest

ObservationRepoNext ==
    \/ \E t \in Times : Insert(t)
    \/ \E t \in Times : InsertFailed(t)
    \/ \E n \in 1..MaxBatch : \E ts \in [1..n -> Times] : \E ok \in SUBSET (1..n) :
          InsertManyObservations(ts, ok)

ObservationRepoSpec == ObservationRepoInit /\ [][ObservationRepoNext]_vars

\* GenerateDateRange on the arguments tried
DateRangeInit ==
    EnvInit /\ JobAtRest /\ ReaderInit /\ FintoAtRest /\ OverlapAtRest /\ SetupAtRest
        /\ ConvAtRest /\ RoundTripAtRest /\ DateAtRest /\ SchemaAtRest /\ RepoInit
        /\ RangeInit /\ BatchAtRest /\ ConfigAtRest

DateRangeNext ==
    \/ GenerateDateRangeStep
    \/ GenerateDateRangeJsStep
    \/ GenerateDateRangeReturn

DateRangeSpec == DateRangeInit /\ [][DateRangeNext]_vars

\* InsertDateDimension on slices of every length up to MaxDocs
DateInsertInit ==
    EnvInit /\ JobAtRest /\ ReaderInit /\ FintoAtRest /\ OverlapAtRest /\ SetupAtRest
        /\ ConvAtRest /\ RoundTripAtRest /\ DateAtRest /\ SchemaAtRest /\ RepoInit
        /\ RangeAtRest /\ BatchInit /\ ConfigAtRest

DateInsertNext ==
    \/ InsertBatchOk
    \/ InsertBatchFailed
    \/ InsertDateDimensionReturn

DateInsertSpec == DateInsertInit /\ [][DateInsertNext]_vars

\* Load in every environment of Envs
ConfigLoadInit ==
    EnvInit /\ JobAtRest /\ ReaderInit /\ FintoAtRest /\ OverlapAtRest /\ SetupAtRest
        /\ ConvAtRest /\ RoundTripAtRest /\ DateAtRest /\ SchemaAtRest /\ RepoInit
        /\ RangeAtRest /\ BatchAtRest /\ ConfigInit

ConfigLoadNext ==
    \/ Load
    \/ Restart

ConfigLoadSpec == ConfigLoadInit /\ [][ConfigLoadNext]_vars

\* the synchronisation when every request of a pass is answered in the end
\* and the loop goes on: each step of the pass is taken if it stays enabled
OntologySyncFairSpec ==
    /\ OntologySyncSpec
    /\ WF_vars(FetchVocab) /\ WF_vars(FetchPage) /\ WF_vars(FetchDetails)
    /\ WF_vars(UpsertUnit) /\ WF_vars(NextPage) /\ WF_vars(LastPage)

---------------------------------------------------------------------------
(* Claims about the external-feature cache *)

\* a caller that has issued its external fetch in the current call
HasFetched(r) == rdPc[r] \in {"fetching", "updating", "refreshed", "failed"}

\* C1: single-flight. Concurrent callers that find the same expired entry cause
\* one external fetch: no two callers have both fetched for the same expired
\* cachedMetadata (the one fetched at the same lastFetched).
C1_SingleFlight ==
    \A r1, r2 \in Readers :
        (r1 # r2 /\ HasFetched(r1) /\ HasFetched(r2))
            => rdFoi[r1].lastFetched # rdFoi[r2].lastFetched

\* C2: cache freshness. No external fetch is issued by the synchronisation job
\* for a cache entry whose expiry is later than the time of the fetch.
C2_FreshNeverRefetched == syncFreshFetch = {}

\* C3: a "not modified" (304) answer to the refresh of an expired entry moves the
\* entry's expiry past the fetch time and leaves its payload, its change token
\* and its lastModified as they were.
C3_NotModifiedExtendsExpiry ==
    [][(SyncNotModified /\ ~EntryFresh(TargetOf(Head(toSync)), now)) =>
          LET a == Head(toSync)
              k == TargetOf(a)
          IN /\ cache'[k].expires = GetExpiryTime(assoc[a].syncFrequency, now)
             /\ cache'[k].expires > now
             /\ cache'[k].feature = cache[k].feature
             /\ cache'[k].etag = cache[k].etag
             /\ assoc'[a].lastKnownEtag = assoc[a].lastKnownEtag
             /\ assoc'[a].lastModified = assoc[a].lastModified]_vars

\* C4: a failed fetch never reaches a reader as a failure: the reader is served
\* the payload it found cached.
C4_ReaderNeverFails == \A r \in Readers : rdPc[r] # "failed"

---------------------------------------------------------------------------
(* Claims about the ontology synchronisation and the hierarchy cache *)

\* C5: after a completed pass and its rebuild, every stored concept's
\* broaderTransitive is the set reached breadth-first over the stored broader edges.
C5_TransitiveIsClosure ==
    (fPc = "idle" /\ report.status = "synced" /\ lastError = "none") =>
        \A i \in 1..Len(store) :
            store[i].broaderTransitive = Ancestors(StoreEdges(store), store[i].uri)

\* C6: when the stored graph of the dimension being rebuilt has a cycle, the
\* rebuild of that dimension ends with HierarchyCycleError and no tree
\* document changes.
C6_CycleFailsRebuild ==
    [][(fPc = "rebuild" /\ dims # <<>> /\ HasCycle(store, Head(dims)) /\ fPc' # fPc) =>
          (lastError' = "HierarchyCycleError" /\ treeCache' = treeCache)]_vars

\* C7: the tree a reader got, whenever it read, is one complete document: its
\* node list is the flattening of its own tree, never that of another version.
C7_ReaderSeesCompleteTree ==
    treeSeen.present => treeSeen.allNodes = FlattenTree(treeSeen.tree)

\* a reader holds the old tree of a dimension while the rebuild has replaced it
\* and is still running
C7_Witness ==
    /\ treeSeen.present
    /\ fPc \in {"rebuild", "replace"}
    /\ treeCache[treeSeen.dimension].present
    /\ treeCache[treeSeen.dimension].tree # treeSeen.tree

\* C8: a second pass over an unchanged source leaves the stored concepts,
\* timestamps apart, as the first pass left them, and adds no record.
C8_SyncIdempotent ==
    (fPc = "synced" /\ cleanPasses >= 2) => Payloads(store) = snap

\* two passes over the same source are done, the second rewrote the records
\* at a later time
C8_Witness ==
    /\ fPc = "synced"
    /\ cleanPasses >= 2
    /\ Len(store) >= 2
    /\ \E i \in 1..Len(store) : store[i].lastModified > 0

\* the offsets of the pages of the source after the offset o
LaterPages(o) == {q \in (o + 1)..source.size : q % PageLimit = 0}

\* C9: when the fetch of a page failed, the pages after it were processed all
\* the same.
C9_LaterPagesProcessed ==
    (fPc = "idle" /\ report.failedAt = "page") =>
        LaterPages(report.failedOffset) \subseteq report.pages

\* C10: a pass is given up only after the failing unit of work was retried 4 times.
C10_RetriedFourTimes ==
    report.status = "aborted" => report.retries = 4

---------------------------------------------------------------------------
(* Claims about overlapping passes and the life of a stored concept *)

\* C11: when passes overlap, no upsert replaces a stored concept by an older
\* version of it: the version of the source a stored record holds never goes back.
C11_NoLostUpdate ==
    [][\A i \in 1..Len(store) :
          (i <= Len(store') /\ store'[i].uri = store[i].uri) =>
              store'[i].label >= store[i].label]_vars

\* C12: a concept record, once stored, is in the collection in every later
\* state unless an operator deleted it, also after its cache expiry has passed.
C12_NeverRemoved ==
    \A u \in everStored : u \in StoredURIs(store) \/ u \in opDeleted

---------------------------------------------------------------------------
(* Claims about unit conversion *)

\* the unit's own operation applied to a value
ApplyOperation(op, v, f) ==
    CASE op = "multiply" -> v * f
      [] op = "divide"   -> v \div f
      [] op = "add"      -> v + f
      [] op = "subtract" -> v - f

\* C13: the converted result of an observation whose unit has a conversion to
\* its base unit is the unit's own operation applied with its factor, for
\* every operation type (divisions taken where they are exact).
C13_OwnOperationApplied ==
    (/\ convOut.done
     /\ obsUnit.factor.kind = "number"
     /\ (obsUnit.operation = "divide" => obsResult % obsUnit.factor.value = 0))
    => convOut.convertedResult =
           Num(ApplyOperation(obsUnit.operation, obsResult, obsUnit.factor.value))

\* C14: converting a value whose unit has no conversion factor and is not a
\* base unit ends with UndefinedConversionError.
C14_UndefinedConversionFails ==
    (/\ convOut.done
     /\ obsUnit.factor.kind # "number"
     /\ ~obsUnit.isBaseUnit)
    => convOut.error = "UndefinedConversionError"

\* C15: a value converted from atm to Pa with the stored factor and back with
\* the stored reverse factor is the value again, within a relative tolerance
\* of 10^-9 (100 units of 10^-ReverseScale for each unit of the value).
C15_RoundTrip ==
    rtPc = "back" =>
        LET d == WideDiff(rtBack, Scaled(rtValue))
        IN d <= 100 * rtValue /\ -d <= 100 * rtValue

---------------------------------------------------------------------------
(* Claims about failed and unanswered synchronisations of an association *)

\* C16: when the sync of an active association fails, the association is
\* kept, its status becomes invalid, the new issue is added after the issues
\* recorded before, and its spatial relationship type is unchanged.
C16_FailureInvalidates ==
    [][SyncFetchFailed =>
          LET a == Head(toSync)
          IN /\ assoc'[a].status = "invalid"
             /\ Len(assoc'[a].issues) = Len(assoc[a].issues) + 1
             /\ SubSeq(assoc'[a].issues, 1, Len(assoc[a].issues)) = assoc[a].issues
             /\ assoc'[a].spatialType = assoc[a].spatialType]_vars

\* C18: a refresh attempt for an expired key ends with the entry fresh again
\* or with the failure recorded on the association, whatever the server answered.
C18_AttemptEndsFreshOrError ==
    [][(/\ syncPc = "fetching"
        /\ syncPc' = "loop"
        /\ ~EntryFresh(TargetOf(Head(toSync)), now))
       => LET a == Head(toSync)
              k == TargetOf(a)
          IN \/ (cache'[k].present /\ cache'[k].expires > now')
             \/ ~assoc'[a].isValid]_vars

---------------------------------------------------------------------------
(* Claims about the flattened node list of a rebuilt tree *)

\* the parent of node u in the tree of document doc, 0 for a root
ParentIn(doc, u) == doc.tree[u]

---------------------------------------------------------------------------
(* Claims about the date dimension *)

\* C19: every date record carries a fiscal calendar that starts on July 1:
\* fiscal month ((m + 5) mod 12) + 1, fiscal quarter (fiscal month - 1) div 3 + 1,
\* in 1..4, fiscal year the calendar year plus one from July on.
C19_FiscalCalendar ==
    dateRec.done =>
        /\ dateRec.fiscalMonth = ((dateRec.month + 5) % 12) + 1
        /\ dateRec.fiscalQuarter = (dateRec.fiscalMonth - 1) \div 3 + 1
        /\ dateRec.fiscalQuarter \in 1..4
        /\ dateRec.fiscalYear = dateRec.year + (IF dateRec.month >= 7 THEN 1 ELSE 0)

\* the record of 15 January 2025: fiscal year 2025, fiscal quarter 3, fiscal month 7
C19_Witness ==
    /\ dateRec.done
    /\ dateRec.by = "go"
    /\ dateRec.year = 2025 /\ dateRec.month = 1 /\ dateRec.day = 15
    /\ dateRec.fiscalYear = 2025 /\ dateRec.fiscalQuarter = 3 /\ dateRec.fiscalMonth = 7

---------------------------------------------------------------------------
(* Claims about schema initialisation *)

---------------------------------------------------------------------------
(* Claims about the observation repository and the date dimension *)

\* the _id of the date-dimension record of an absolute day (GenerateDateRange
\* runs on UTC midnights)
DateRecordId(n) == GetDateKey([inst |-> n * 24, off |-> 0])

\* the days the date dimension covers
DimensionDays == AbsDay(FirstYear, 1, 1)..AbsDay(LastYear, 12, 31)

\* C21: every stored observation has date_key equal to the YYYYMMDD key of
\* its phenomenonTime and hour_bucket equal to that time's hour, within
\* 0..23, and date_key is the _id of exactly the date-dimension record of
\* the day of its phenomenonTime.
C21_DateKeyOfPhenomenonTime ==
    \A o \in obsStored :
        /\ o.date_key = Num(GetDateKey(o.phenomenonTime))
        /\ o.hour_bucket = Num(GetHourBucket(o.phenomenonTime))
        /\ GetHourBucket(o.phenomenonTime) \in 0..23
        /\ {n \in DimensionDays : Num(DateRecordId(n)) = o.date_key}
              = {o.phenomenonTime.inst \div 24}

\* the absolute day of the calendar day an argument of the range names: the
\* day on the wall clock of its location in Go, the day toISOString prints
\* in the script
RangeDay(t) == IF rangeBy = "go" THEN Wall(t) \div 24 ELSE t.inst \div 24

\* C22: GenerateDateRange returns exactly one record for every calendar day
\* from the start to the end, both included, in ascending order with
\* strictly increasing ids, and no record when the start is after the end.
C22_OneRecordPerDay ==
    rangePc = "done" =>
        /\ startDate.inst > endDate.inst => dates = <<>>
        /\ startDate.inst <= endDate.inst =>
              dates = [i \in 1..(RangeDay(endDate) - RangeDay(startDate) + 1) |->
                          DateRecordId(RangeDay(startDate) + i - 1)]
        /\ \A i \in 1..(Len(dates) - 1) : dates[i] < dates[i + 1]

\* C23: InsertDateDimension sends the records in consecutive batches of at
\* most 1000, each record in exactly one batch and in the original order;
\* when a batch fails the error is returned at once, the batches inserted
\* before it remain stored and no later batch is attempted.
C23_BatchesInOrder ==
    /\ \A j \in 1..Len(batches) :
          /\ batches[j][1] = (IF j = 1 THEN 0 ELSE batches[j - 1][2])
          /\ batches[j][2] - batches[j][1] \in 1..BatchSize
          /\ batches[j][2] <= numDocs
    /\ insertResult = "nil" =>
          /\ storedDocs = numDocs
          /\ (numDocs = 0 /\ batches = <<>>) \/ batches[Len(batches)][2] = numDocs
    /\ insertResult = "error" =>
          /\ insertPc = "returned"
          /\ storedDocs >= batches[Len(batches)][1]
          /\ storedDocs < batches[Len(batches)][2]
          /\ batchI = batches[Len(batches)][1]

\* the third batch failed after two batches were stored
C23_Witness ==
    /\ insertResult = "error"
    /\ Len(batches) = 3
    /\ storedDocs >= 2 * BatchSize

\* C24: for the same date and the same today, the Go generator and the
\* JavaScript generator produce the same value in every field of the record.
C24_GoEqualsJs ==
    dateRec.done =>
        \A f \in RecordFields : GoDateRecord(dateIn)[f] = JsDateRecord(dateIn)[f]

\* C25: every generated record has IsWeekend = not IsWeekday, IsBusinessDay =
\* IsWeekday and not IsHoliday, day of week in 1..7 with Monday 1 and Sunday 7,
\* Quarter = (Month - 1) div 3 + 1, IsLastDayOfMonth exactly when Day =
\* DaysInMonth, and 29 days in February exactly in a leap year.
C25_RecordConsistent ==
    dateRec.done =>
        /\ dateRec.isWeekend = ~dateRec.isWeekday
        /\ dateRec.isBusinessDay = (dateRec.isWeekday /\ ~dateRec.isHoliday)
        /\ dateRec.dayOfWeek \in 1..7
        /\ dateRec.dayOfWeek = ((AbsDay(dateRec.year, dateRec.month, dateRec.day)) % 7) + 1
        /\ dateRec.isWeekday = (dateRec.dayOfWeek \in 1..5)
        /\ dateRec.quarter = (dateRec.month - 1) \div 3 + 1
        /\ dateRec.isLastDayOfMonth = (dateRec.day = dateRec.daysInMonth)
        /\ dateRec.month = 2 => ((dateRec.daysInMonth = 29) = dateRec.isLeapYear)
        /\ dateRec.month = 2 => dateRec.daysInMonth \in {28, 29}

\* the record of 29 February 2024, a Thursday and the last day of its month
C25_Witness ==
    /\ dateRec.done
    /\ dateRec.year = 2024 /\ dateRec.month = 2 /\ dateRec.day = 29
    /\ dateRec.isLeapYear /\ dateRec.isLastDayOfMonth /\ dateRec.dayOfWeek = 4

---------------------------------------------------------------------------
(* Claims about the configuration *)

\* a string that writes a whole number: digits, after a minus sign if signed
WritesNumber(str, signed) ==
    LET body == IF signed /\ str # <<>> /\ str[1] = "-" THEN Tail(str) ELSE str
    IN  body # <<>> /\ \A i \in DOMAIN body : body[i] = "7"

\* C26: Load never returns a configuration that fails Validate: in
\* production with an empty JWT_SECRET it returns an error and no
\* configuration; in every other case it returns a configuration whose URI
\* and database name are not empty, and each numeric or boolean variable
\* that is unset or unparseable holds its default.
C26_LoadValidOrError ==
    loadPc = "returned" =>
        /\ loadCfg.set => Validate(loadCfg) = "nil"
        /\ (env.APP_ENV = "production" /\ env.JWT_SECRET = "") =>
              (loadErr # "nil" /\ ~loadCfg.set)
        /\ ~(env.APP_ENV = "production" /\ env.JWT_SECRET = "") =>
              /\ loadErr = "nil"
              /\ loadCfg.set
              /\ loadCfg.URI # ""
              /\ loadCfg.DatabaseName # ""
              /\ ~WritesNumber(env.APP_PORT, TRUE) => loadCfg.Port = 8080
              /\ ~WritesNumber(env.MAX_POOL_SIZE, FALSE) => loadCfg.MaxPoolSize = 10
              /\ env.FEATURE_SYNC_ENABLED \in {"", "yes"} => loadCfg.FeatureSyncEnabled = TRUE

\* Load returned a configuration in an environment whose port is not a
\* number, whose pool size is negative and whose boolean is not one
C26_Witness ==
    /\ loadPc = "returned"
    /\ loadCfg.set
    /\ env.APP_ENV = "production"
    /\ env.APP_PORT = <<"7", "x">>
    /\ env.MAX_POOL_SIZE = <<"-", "7">>
    /\ env.FEATURE_SYNC_ENABLED = "yes"
    /\ loadCfg.Port = 8080

---------------------------------------------------------------------------
(* Claims about the validation query and a run of the job *)

\* C27: the validation query reports an association as needing sync exactly
\* when the synchronisation job would select it (active, nextScheduledSync
\* at or before the current time); an association whose next scheduled sync
\* lies in the future is reported as OK.
C27_ValidationAgreesWithJob ==
    \A a \in AssocIds :
        /\ NeedsSync(a, now) <=>
              (a \in DOMAIN ValidationQuery(now) /\ ValidationQuery(now)[a] = "NEEDS SYNC")
        /\ (a \in DOMAIN ValidationQuery(now) /\ assoc[a].nextScheduledSync > now) =>
              ValidationQuery(now)[a] = "OK"

\* the validation block of an association document
ValidationBlock(doc) == <<doc.isValid, doc.issues>>

\* an association document without its validation block
OutsideValidation(doc) ==
    <<doc.status, doc.syncFrequency, doc.lastSync, doc.nextScheduledSync,
      doc.lastKnownEtag, doc.lastModified, doc.spatialType>>

\* a run starts with exactly the active associations that are due, each once
C28_RunSelectsDue ==
    (syncPc = "idle" /\ syncPc' = "loop") =>
        /\ {toSync'[i] : i \in DOMAIN toSync'} = {a \in AssocIds : NeedsSync(a, now)}
        /\ \A i, j \in DOMAIN toSync' : toSync'[i] = toSync'[j] => i = j

\* an association leaves the list only when its attempt is over, and the run
\* ends only when every association of the list was attempted
C28_AllAttempted ==
    /\ (syncPc # "idle" /\ toSync' # toSync /\ syncPc' # "idle") =>
          (syncPc \in {"fetching", "updating"} /\ toSync' = Tail(toSync))
    /\ (syncPc # "idle" /\ syncPc' = "idle") =>
          \/ toSync = <<>>
          \/ syncPc \in {"fetching", "updating"} /\ Tail(toSync) = <<>>

\* a step that records a failure changes the validation block of the
\* association being synchronised and nothing else
C28_FailureIsLocal ==
    \A a \in AssocIds :
        ValidationBlock(assoc'[a]) # ValidationBlock(assoc[a]) =>
            /\ toSync # <<>> /\ a = Head(toSync)
            /\ OutsideValidation(assoc'[a]) = OutsideValidation(assoc[a])
            /\ \A b \in AssocIds \ {a} : assoc'[b] = assoc[b]
            /\ cache' = cache
            /\ toSync' = Tail(toSync)

\* after a successful sync the next scheduled sync is later than the run
C28_NextSyncLater ==
    \A a \in AssocIds :
        assoc'[a].lastSync # assoc[a].lastSync \/
        assoc'[a].nextScheduledSync # assoc[a].nextScheduledSync =>
            /\ assoc'[a].nextScheduledSync > now
            /\ ~NeedsSync(a, now)'

\* C28: in one run of syncExternalFeatures every active association that is
\* due is attempted exactly once; a failure while syncing one association
\* changes only that association's validation block and never prevents the
\* remaining ones from being attempted; after a successful sync the
\* association's nextScheduledSync is strictly later than the time of the run.
C28_EveryDueAttemptedOnce ==
    [][C28_RunSelectsDue /\ C28_AllAttempted /\ C28_FailureIsLocal /\ C28_NextSyncLater]_vars

---------------------------------------------------------------------------
(* Claims about the paginated pass *)

\* the length of the page at an offset of a source of n concepts
PageLenAt(n, off) ==
    IF n - off >= PageLimit THEN PageLimit ELSE IF n > off THEN n - off ELSE 0

\* while the concepts of a page are processed and the source has not changed:
\* the offset is a multiple of the page size, the page is the one of that
\* offset, and the concepts still to process are the last ones of the page,
\* in order; those before them are stored, at the revision of the source
C29_PageInOrder ==
    (fPc \in {"concepts", "upsert"} /\ ~passDirty) =>
        /\ offset % PageLimit = 0
        /\ offset <= source.size
        /\ pageLen = PageLenAt(source.size, offset)
        /\ results = [i \in 1..Len(results) |-> offset + pageLen - Len(results) + i]
        /\ fPc = "upsert" => (results # <<>> /\ unit.uri = Head(results))
        /\ \A u \in 1..(offset + pageLen - Len(results)) :
              \E i \in 1..Len(store) : store[i].uri = u /\ store[i].label = source.rev

\* a page is fetched once in a pass; the pass is over, every concept stored,
\* only after the page that came short; the rebuild follows that page only
C29_PagesOnce ==
    /\ (fPc = "page" /\ fPc' = "concepts") => offset \notin report.pages
    /\ (fPc # "synced" /\ fPc' = "synced" /\ ~passDirty) =>
          /\ pageLen < PageLimit /\ results = <<>>
          /\ offset + pageLen = source.size
          /\ report.pages = {q \in 0..source.size : q % PageLimit = 0}
          /\ {store[i].uri : i \in 1..Len(store)} = 1..source.size
          /\ \A i, j \in 1..Len(store) : store[i].uri = store[j].uri => i = j
    /\ (fPc \notin {"rebuild", "replace"} /\ fPc' \in {"rebuild", "replace"}) =>
          fPc = "synced"

\* C29: for a finite source that does not change during the pass, the
\* paginated sync terminates and fetches and upserts every concept of the
\* source exactly once, also when the source is empty or its size is a
\* multiple of the page size; the rebuild runs only after the last page.
C29_PaginationComplete ==
    /\ []C29_PageInOrder
    /\ [][C29_PagesOnce]_vars
    /\ (InPass ~> ~InPass)

\* a pass over a source of two full pages is over: three pages were fetched,
\* the last one empty, and the four concepts are stored
C29_Witness ==
    /\ fPc = "synced"
    /\ ~passDirty
    /\ source.size = 2 * PageLimit
    /\ report.pages = {0, PageLimit, 2 * PageLimit}
    /\ Len(store) = 2 * PageLimit

====
